---- MODULE Spec2Model ----
(***************************************************************************)
(* Model of the Mindalike worker (src/worker/index.ts): the MatchingQueue  *)
(* Durable Object (waiting pool, pairing pass, alarm tick, WebSocket       *)
(* handlers) and the SIWE nonce store of the HTTP worker.                  *)
(***************************************************************************)
EXTENDS Integers, Sequences, FiniteSets, TLC

\* ------------------------------------------------------------------ bounds
\* Distinct usernames that connect.
NUsers == 4
\* Largest value the Durable Object's millisecond clock takes.
MaxTime == 1

\* Distinct CF-Connecting-IP values that run the SIWE handshake.
NClients == 1
\* Distinct values generateNonce() returns and requests carry.
NNonces == 2
\* /api/verify-siwe requests that can be in flight at a time.
NRequests == 2
\* Largest value of the worker's clock, in minutes.
MaxWall == 6

\* Distinct wallet addresses.
NWallets == 2
\* Distinct World ID nullifier hashes.
NHashes == 2
\* /api/verify-worldid requests that can be in flight at a time.
NAttests == 2
\* Payment references, concurrent requests to the freemium routes, and the
\* largest match_count of a day.
NRefs == 1
NPayRequests == 2
MaxCount == 6

Usernames == 1..NUsers
\* Connection slots: one per username, and one more for a second connection
\* under the first username.
Sockets == 1..(NUsers + 1)

\* The ?username= query parameter the connection in slot ws was upgraded with
\* (fetch stores it with serializeAttachment, the handlers read it back).
UsernameOf(ws) == ((ws - 1) % NUsers) + 1

\* Scenario of Spec: every username but the last connects, the first one on
\* two connections.
SharingSockets == (1..(NUsers - 1)) \cup {NUsers + 1}
\* Scenario of PairSpec: every username connects on one connection.
PairSockets == 1..NUsers

\* The clock schedules of one handler turn that starts on a pool of n entries
\* and reads Date.now() `own` times before tryMatch, which reads it twice per
\* pairing. A turn is far shorter than a millisecond, so the clock moves on at
\* most once in it: adv = k when it does so just before the k-th Date.now() of
\* the turn, adv = 0 when it does not.
Schedules(own, n) == 0..(own + 2 * (n \div 2))

VARIABLES
  queue,      \* MatchingQueue.queue: the Map's entries in insertion order
  sock,       \* per connection slot: "none", "open", "closing" (peer gone, close event pending)
  now,        \* the value of the last Date.now() read in the Durable Object
  alarmSet,   \* whether a storage alarm is pending
  sent,       \* the ws.send() calls of the last handler turn, in order
  pairings,   \* the pairs tryMatch selected in the last handler turn, in order
  last,       \* the last handler turn, see Turn
  left        \* the usernames whose entry a leave_queue removed, until they join again

coordVars == <<queue, sock, now, alarmSet, sent, pairings, last, left>>

VARIABLES
  nonceStore, \* the worker's nonceStore Map: per clientId a record or NoRecord
  wallClock,  \* Date.now() of the worker, in minutes
  req,        \* the /api/verify-siwe requests in flight
  answer,     \* what the step just taken answered, if it answered a request
  audit,      \* per clientId, what happened since /api/nonce last issued to it
  bound       \* the <<address, username>> pairs that /api/verify-siwe answered with success

nonceVars == <<nonceStore, wallClock, req, answer, audit, bound>>

VARIABLES
  usersTable, \* the rows of the D1 table users
  att,        \* the /api/verify-worldid requests in flight
  attAnswer   \* what the step just taken answered, if it answered such a request

ledgerVars == <<usersTable, att, attAnswer>>

VARIABLES
  gate,       \* per connection slot, the /ws upgrade request in flight
  gateAnswer, \* what the step just taken answered, if it answered a /ws request
  admitted    \* per connection slot, the wallet its connection was admitted with

gateVars == <<gate, gateAnswer, admitted>>

VARIABLES
  run         \* per handler of the Durable Object, where its invocation stands

stepVars == <<run>>

VARIABLES
  dailyMatches, \* D1 table daily_matches: per wallet, today's match_count (0: no row)
  kvCache,      \* KV DAILY_MATCHES_CACHE: per wallet, today's cached count or NoCache
  payments,     \* D1 table payments: per reference_id, the status or "none" (no row)
  pay,          \* the requests to the freemium routes in flight
  payAnswer,    \* what the step just taken answered, if it answered such a request
  credit        \* per reference_id, how often its grant statement has run

payVars == <<dailyMatches, kvCache, payments, pay, payAnswer, credit>>

vars == <<queue, sock, now, alarmSet, sent, pairings, last, left,
          nonceStore, wallClock, req, answer, audit, bound,
          usersTable, att, attAnswer,
          gate, gateAnswer, admitted,
          run,
          dailyMatches, kvCache, payments, pay, payAnswer, credit>>

\* ------------------------------------------------------------ Date.now()
\* The k-th Date.now() of a turn under schedule adv, the read before it
\* having returned t.
DateNow(t, adv, k) == IF adv = k /\ t < MaxTime THEN t + 1 ELSE t

\* --------------------------------------------------------------- ws.send
\* ws.send() throws on a socket that is not open.
CanSend(ws) == sock[ws] = "open"

QueuedNames(q) == {q[i].username : i \in 1..Len(q)}

\* One ws.send() call: the message, whether it was delivered, and the
\* usernames in this.queue at the moment of the call.
Msg(ws, type, name, at, position, total, text, q) ==
  [to |-> ws, type |-> type, matchedUsername |-> name, matchedAt |-> at,
   position |-> position, total |-> total, message |-> text,
   delivered |-> CanSend(ws), queued |-> QueuedNames(q)]

\* ------------------------------------------------- Map and Array helpers
\* MatchingQueue.removeFromQueue: this.queue.delete(username).
removeFromQueue(q, username) == SelectSeq(q, LAMBDA u : u.username # username)

\* MatchingQueue.addToQueue: delete, then set (a fresh key goes to the end of
\* the Map's insertion order).
MutAddFirstJoinWins(q, username, ws, t) ==
  IF username \in QueuedNames(q) THEN q
  ELSE Append(q, [username |-> username, joinedAt |-> t, websocket |-> ws])
addToQueue(q, username, ws, t) ==
  Append(removeFromQueue(q, username),
         [username |-> username, joinedAt |-> t, websocket |-> ws])

\* Array.prototype.sort((a, b) => a.joinedAt - b.joinedAt): stable.
RECURSIVE InsertByJoinedAt(_, _)
InsertByJoinedAt(sorted, u) ==
  IF sorted = <<>> THEN <<u>>
  ELSE IF Head(sorted).joinedAt <= u.joinedAt
       THEN <<Head(sorted)>> \o InsertByJoinedAt(Tail(sorted), u)
       ELSE <<u>> \o sorted

RECURSIVE SortPrefix(_, _)
SortPrefix(q, n) ==
  IF n = 0 THEN <<>> ELSE InsertByJoinedAt(SortPrefix(q, n - 1), q[n])

\* Faulty variant: the comparator the other way round, (a, b) => b.joinedAt - a.joinedAt.
RECURSIVE MutInsertDescending(_, _)
MutInsertDescending(sorted, u) ==
  IF sorted = <<>> THEN <<u>>
  ELSE IF Head(sorted).joinedAt >= u.joinedAt
       THEN <<Head(sorted)>> \o MutInsertDescending(Tail(sorted), u)
       ELSE <<u>> \o sorted
RECURSIVE MutSortPrefixDescending(_, _)
MutSortPrefixDescending(q, n) ==
  IF n = 0 THEN <<>>
  ELSE MutInsertDescending(MutSortPrefixDescending(q, n - 1), q[n])
MutSortDescending(q) == MutSortPrefixDescending(q, Len(q))
SortByJoinedAt(q) == SortPrefix(q, Len(q))

\* Array.prototype.findIndex(u => u.websocket === ws) + 1 (0 when absent).
RECURSIVE FindIndex(_, _, _)
FindIndex(users, ws, i) ==
  IF i > Len(users) THEN 0
  ELSE IF users[i].websocket = ws THEN i ELSE FindIndex(users, ws, i + 1)

\* ----------------------------------------------------- MatchingQueue code
\* MatchingQueue.sendQueueStatus: the requester's rank by joinedAt and the
\* pool size, sent to ws (the send throws when ws is not open).
MutStatusZeroBased(q, ws) ==
  Msg(ws, "queue_status", 0, 0, FindIndex(SortByJoinedAt(q), ws, 1) - 1, Len(q), "", q)

sendQueueStatus(q, ws) ==
  Msg(ws, "queue_status", 0, 0, FindIndex(SortByJoinedAt(q), ws, 1), Len(q), "", q)

\* tryMatch, lines 647-649: the two entries that sort first.
MutSelectFirstTwice(q) == <<SortByJoinedAt(q)[1], SortByJoinedAt(q)[1]>>
SelectPair(q) == <<SortByJoinedAt(q)[1], SortByJoinedAt(q)[2]>>

\* tryMatch, lines 651-652: both entries leave the pool.
MutRemoveFirstOnly(q, user1, user2) == removeFromQueue(q, user1.username)
RemovePair(q, user1, user2) ==
  removeFromQueue(removeFromQueue(q, user1.username), user2.username)

\* tryMatch, lines 654-666: one matched message to each entry's socket, each
\* with a Date.now() of its own (reads k and k + 1 of the turn) and each in a
\* try/catch of its own; q is this.queue while they are sent.
MutMatchedToFirstTwice(user1, user2, q, t, adv, k) ==
  LET t1 == DateNow(t, adv, k)
      t2 == DateNow(t1, adv, k + 1)
  IN <<Msg(user1.websocket, "matched", user2.username, t1, 0, 0, "", q),
       Msg(user1.websocket, "matched", user1.username, t2, 0, 0, "", q)>>
MatchedMessages(user1, user2, q, t, adv, k) ==
  LET t1 == DateNow(t, adv, k)
      t2 == DateNow(t1, adv, k + 1)
  IN <<Msg(user1.websocket, "matched", user2.username, t1, 0, 0, "", q),
       Msg(user2.websocket, "matched", user1.username, t2, 0, 0, "", q)>>

NoMatch(q, t) == [queue |-> q, sent |-> <<>>, pairings |-> <<>>, now |-> t]

\* Faulty variant: one pairing per pass, line 668 left out.
MutTryMatchOnce(q, t, adv, k) ==
  IF Len(q) < 2 THEN NoMatch(q, t)
  ELSE
    LET user1 == SelectPair(q)[1]
        user2 == SelectPair(q)[2]
        q2 == RemovePair(q, user1, user2)
        msgs == MatchedMessages(user1, user2, q2, t, adv, k)
    IN [queue |-> q2,
        sent |-> msgs,
        pairings |-> <<[user1 |-> user1, user2 |-> user2, before |-> q, after |-> q2]>>,
        now |-> msgs[2].matchedAt]

\* Faulty variant: the sends without their try/catch; the first send that throws ends
\* the pass.
RECURSIVE MutTryMatchNoCatch(_, _, _, _)
MutTryMatchNoCatch(q, t, adv, k) ==
  IF Len(q) < 2 THEN NoMatch(q, t)
  ELSE
    LET user1 == SelectPair(q)[1]
        user2 == SelectPair(q)[2]
        q2 == RemovePair(q, user1, user2)
        msgs == MatchedMessages(user1, user2, q2, t, adv, k)
        pair == <<[user1 |-> user1, user2 |-> user2, before |-> q, after |-> q2]>>
        rest == MutTryMatchNoCatch(q2, msgs[2].matchedAt, adv, k + 2)
    IN IF ~msgs[1].delivered
       THEN [queue |-> q2, sent |-> <<msgs[1]>>, pairings |-> pair, now |-> msgs[1].matchedAt]
       ELSE IF ~msgs[2].delivered
       THEN [queue |-> q2, sent |-> msgs, pairings |-> pair, now |-> msgs[2].matchedAt]
       ELSE [queue |-> rest.queue, sent |-> msgs \o rest.sent,
             pairings |-> pair \o rest.pairings, now |-> rest.now]

\* MatchingQueue.tryMatch: nothing below two entries; otherwise one pairing,
\* and again while two or more entries remain (line 668).
RECURSIVE tryMatch(_, _, _, _)
tryMatch(q, t, adv, k) ==
  IF Len(q) < 2 THEN NoMatch(q, t)
  ELSE
    LET user1 == SelectPair(q)[1]
        user2 == SelectPair(q)[2]
        q2 == RemovePair(q, user1, user2)
        msgs == MatchedMessages(user1, user2, q2, t, adv, k)
        t2 == msgs[2].matchedAt
        rest == IF Len(q2) >= 2 THEN tryMatch(q2, t2, adv, k + 2) ELSE NoMatch(q2, t2)
    IN [queue |-> rest.queue,
        sent |-> msgs \o rest.sent,
        pairings |-> <<[user1 |-> user1, user2 |-> user2, before |-> q, after |-> q2]>>
                     \o rest.pairings,
        now |-> rest.now]

\* MatchingQueue.broadcastQueueStatus: one queue_status per entry of the sorted
\* snapshot; an entry whose send throws is removed from this.queue, so later
\* totals of the same pass are smaller.
RECURSIVE MutBroadcastZeroBased(_, _, _)
MutBroadcastZeroBased(users, i, cur) ==
  IF i > Len(users) THEN [queue |-> cur, sent |-> <<>>]
  ELSE
    LET m == Msg(users[i].websocket, "queue_status", 0, 0, i - 1, Len(cur), "", cur)
        nxt == IF CanSend(users[i].websocket) THEN cur
               ELSE removeFromQueue(cur, users[i].username)
        rest == MutBroadcastZeroBased(users, i + 1, nxt)
    IN [queue |-> rest.queue, sent |-> <<m>> \o rest.sent]

\* Faulty variant: an entry stays in the pool when its queue_status is not
\* delivered.
RECURSIVE MutBroadcastKeepsFailed(_, _, _)
MutBroadcastKeepsFailed(users, i, cur) ==
  IF i > Len(users) THEN [queue |-> cur, sent |-> <<>>]
  ELSE
    LET m == Msg(users[i].websocket, "queue_status", 0, 0, i, Len(cur), "", cur)
        rest == MutBroadcastKeepsFailed(users, i + 1, cur)
    IN [queue |-> rest.queue, sent |-> <<m>> \o rest.sent]

RECURSIVE Broadcast(_, _, _)
Broadcast(users, i, cur) ==
  IF i > Len(users) THEN [queue |-> cur, sent |-> <<>>]
  ELSE
    LET m == Msg(users[i].websocket, "queue_status", 0, 0, i, Len(cur), "", cur)
        nxt == IF CanSend(users[i].websocket) THEN cur
               ELSE removeFromQueue(cur, users[i].username)
        rest == Broadcast(users, i + 1, nxt)
    IN [queue |-> rest.queue, sent |-> <<m>> \o rest.sent]

broadcastQueueStatus(q) == Broadcast(SortByJoinedAt(q), 1, q)

\* The error reply of webSocketMessage's catch block.
InvalidFormat(ws, q) == Msg(ws, "error", 0, 0, 0, 0, "Invalid message format", q)

\* What is kept of a handler turn: its kind, the pool when the handler was
\* entered (start), whether it called tryMatch, the pool on entry to tryMatch
\* (pre) and on return from it (post), and whether an exception left the
\* handler. Of a close or error event also the username of its socket (who)
\* and whether the turn before it was an error event for that username
\* (again); of a tick, whether the turn before it was a tick (again).
Turn(kind, start, ran, pre, post, threw) ==
  [kind |-> kind, start |-> start, ran |-> ran, pre |-> pre, post |-> post,
   threw |-> threw, who |-> 0, again |-> FALSE]

Quiet(kind) == Turn(kind, <<>>, FALSE, <<>>, <<>>, FALSE)

Gone(kind, who, start, post) ==
  [kind |-> kind, start |-> start, ran |-> FALSE, pre |-> <<>>, post |-> post,
   threw |-> FALSE, who |-> who,
   again |-> last.kind = "error" /\ last.who = who]

\* ------------------------------------------------------------- handlers
\* MatchingQueue.constructor. The object keeps its sockets through
\* state.acceptWebSocket, so the runtime may drop it from memory between two
\* events while connections stay open; the next event constructs it anew and
\* this.queue is an empty Map again. Sockets and the alarm are kept by the
\* runtime.
constructor ==
  /\ queue' = <<>>
  /\ sent' = <<>>
  /\ pairings' = <<>>
  /\ last' = Turn("constructor", queue, FALSE, <<>>, <<>>, FALSE)
  /\ UNCHANGED <<sock, now, alarmSet, left>>

\* MatchingQueue.fetch, path /status (reached through /api/queue-status):
\* answers this.queue.size.
fetchStatus ==
  /\ sent' = <<>>
  /\ pairings' = <<>>
  /\ last' = Turn("status", queue, FALSE, <<>>, queue, FALSE)
  /\ UNCHANGED <<queue, sock, now, alarmSet, left>>

\* MatchingQueue.fetch, WebSocket upgrade: accept the socket, attach the
\* username, startMatchingProcess() sets the alarm.
fetch(ws) ==
  /\ sock[ws] = "none"
  /\ sock' = [sock EXCEPT ![ws] = "open"]
  /\ alarmSet' = TRUE
  /\ sent' = <<>>
  /\ pairings' = <<>>
  /\ last' = Quiet("fetch")
  /\ UNCHANGED <<queue, now, left>>

\* The peer goes away: sends to ws throw from now on; the close event is
\* still to be delivered.
Disconnect(ws) ==
  /\ sock[ws] = "open"
  /\ sock' = [sock EXCEPT ![ws] = "closing"]
  /\ sent' = <<>>
  /\ pairings' = <<>>
  /\ last' = Quiet("disconnect")
  /\ UNCHANGED <<queue, now, alarmSet, left>>

\* A message can be handled on any accepted socket whose close event has not
\* been handled yet.
Receiving(ws) == sock[ws] \in {"open", "closing"}

\* webSocketMessage, case 'join_queue': addToQueue, sendQueueStatus, tryMatch.
\* A throwing sendQueueStatus skips tryMatch and lands in the catch block,
\* whose own send throws too and leaves the handler.
JoinQueue(ws, adv) ==
  /\ Receiving(ws)
  /\ LET t1 == DateNow(now, adv, 1)
         q1 == addToQueue(queue, UsernameOf(ws), ws, t1)
         status == sendQueueStatus(q1, ws)
         r == tryMatch(q1, t1, adv, 2)
     IN IF CanSend(ws)
        THEN /\ queue' = r.queue
             /\ now' = r.now
             /\ sent' = <<status>> \o r.sent
             /\ pairings' = r.pairings
             /\ last' = Turn("join_queue", queue, TRUE, q1, r.queue, FALSE)
        ELSE /\ queue' = q1
             /\ now' = t1
             /\ sent' = <<status, InvalidFormat(ws, q1)>>
             /\ pairings' = <<>>
             /\ last' = Turn("join_queue", queue, FALSE, q1, q1, TRUE)
  /\ left' = left \ {UsernameOf(ws)}
  /\ UNCHANGED <<sock, alarmSet>>

MutLeaveKeepsEntry(ws) ==
  /\ Receiving(ws)
  /\ left' = IF UsernameOf(ws) \in QueuedNames(queue)
             THEN left \cup {UsernameOf(ws)} ELSE left
  /\ sent' = <<>>
  /\ pairings' = <<>>
  /\ last' = Quiet("leave_queue")
  /\ UNCHANGED <<queue, sock, now, alarmSet>>

\* webSocketMessage, case 'leave_queue'.
LeaveQueue(ws) ==
  /\ Receiving(ws)
  /\ queue' = removeFromQueue(queue, UsernameOf(ws))
  /\ left' = IF UsernameOf(ws) \in QueuedNames(queue)
             THEN left \cup {UsernameOf(ws)} ELSE left
  /\ sent' = <<>>
  /\ pairings' = <<>>
  /\ last' = Quiet("leave_queue")
  /\ UNCHANGED <<sock, now, alarmSet>>

\* Faulty variant: every reply is followed by a heartbeat.
MutReplyAddsHeartbeat(ws, kind) ==
  /\ Receiving(ws)
  /\ LET first == CASE kind = "heartbeat" -> Msg(ws, "heartbeat", 0, 0, 0, 0, "", queue)
                    [] kind = "unknown" -> Msg(ws, "error", 0, 0, 0, 0, "Unknown message type", queue)
                    [] OTHER -> InvalidFormat(ws, queue)
     IN /\ sent' = <<first, Msg(ws, "heartbeat", 0, 0, 0, 0, "", queue)>>
        /\ last' = Turn(kind, <<>>, FALSE, <<>>, <<>>, ~CanSend(ws))
  /\ pairings' = <<>>
  /\ UNCHANGED <<queue, sock, now, alarmSet, left>>

\* webSocketMessage, the cases that only reply: 'heartbeat', an unknown type
\* (default) and a message JSON.parse rejects (catch). A throwing reply lands
\* in the catch block, whose send throws as well.
Reply(ws, kind) ==
  /\ Receiving(ws)
  /\ LET first == CASE kind = "heartbeat" -> Msg(ws, "heartbeat", 0, 0, 0, 0, "", queue)
                    [] kind = "unknown" -> Msg(ws, "error", 0, 0, 0, 0, "Unknown message type", queue)
                    [] OTHER -> InvalidFormat(ws, queue)
     IN /\ sent' = IF CanSend(ws) \/ kind = "malformed" THEN <<first>>
                   ELSE <<first, InvalidFormat(ws, queue)>>
        /\ last' = Turn(kind, <<>>, FALSE, <<>>, <<>>, ~CanSend(ws))
  /\ pairings' = <<>>
  /\ UNCHANGED <<queue, sock, now, alarmSet, left>>

\* MatchingQueue.webSocketClose: removes the entry stored under the socket's
\* username; the slot is free for a later connection.
MutCloseKeepsEntry(ws) ==
  /\ sock[ws] = "closing"
  /\ sock' = [sock EXCEPT ![ws] = "none"]
  /\ sent' = <<>>
  /\ pairings' = <<>>
  /\ last' = Gone("close", UsernameOf(ws), queue, queue)
  /\ UNCHANGED <<queue, now, alarmSet, left>>

webSocketClose(ws) ==
  /\ sock[ws] = "closing"
  /\ queue' = removeFromQueue(queue, UsernameOf(ws))
  /\ sock' = [sock EXCEPT ![ws] = "none"]
  /\ sent' = <<>>
  /\ pairings' = <<>>
  /\ last' = Gone("close", UsernameOf(ws), queue, queue')
  /\ UNCHANGED <<now, alarmSet, left>>

\* MatchingQueue.webSocketError: same removal; the close event follows.
webSocketError(ws) ==
  /\ sock[ws] = "closing"
  /\ queue' = removeFromQueue(queue, UsernameOf(ws))
  /\ sent' = <<>>
  /\ pairings' = <<>>
  /\ last' = Gone("error", UsernameOf(ws), queue, queue')
  /\ UNCHANGED <<sock, now, alarmSet, left>>

\* Faulty variant: the tick pairs the two users who waited longest and nobody
\* else, and keeps the entries whose queue_status was not delivered.
MutAlarmOnePairKeepsAll(adv) ==
  /\ alarmSet
  /\ LET r == MutTryMatchOnce(queue, now, adv, 1)
         b == broadcastQueueStatus(r.queue)
     IN /\ queue' = r.queue
        /\ now' = r.now
        /\ sent' = r.sent \o b.sent
        /\ pairings' = r.pairings
        /\ alarmSet' = (Len(r.queue) > 0)
        /\ last' = [Turn("alarm", queue, TRUE, queue, r.queue, FALSE)
                     EXCEPT !.again = (last.kind = "alarm")]
  /\ UNCHANGED <<sock, left>>

\* Faulty variant: the tick always sets a new alarm.
MutAlarmAlwaysRearms(adv) ==
  /\ alarmSet
  /\ LET r == tryMatch(queue, now, adv, 1)
         b == broadcastQueueStatus(r.queue)
     IN /\ queue' = b.queue
        /\ now' = r.now
        /\ sent' = r.sent \o b.sent
        /\ pairings' = r.pairings
        /\ alarmSet' = TRUE
        /\ last' = [Turn("alarm", queue, TRUE, queue, r.queue, FALSE)
                     EXCEPT !.again = (last.kind = "alarm")]
  /\ UNCHANGED <<sock, left>>

\* Faulty variant: the tick reports positions in the pool as it was before
\* the pairing pass.
MutAlarmStaleBroadcast(adv) ==
  /\ alarmSet
  /\ LET r == tryMatch(queue, now, adv, 1)
         b == Broadcast(SortByJoinedAt(queue), 1, r.queue)
     IN /\ queue' = b.queue
        /\ now' = r.now
        /\ sent' = r.sent \o b.sent
        /\ pairings' = r.pairings
        /\ alarmSet' = (Len(b.queue) > 0)
        /\ last' = [Turn("alarm", queue, TRUE, queue, r.queue, FALSE)
                     EXCEPT !.again = (last.kind = "alarm")]
  /\ UNCHANGED <<sock, left>>

\* MatchingQueue.alarm: tryMatch, broadcastQueueStatus, and a new alarm only
\* while entries remain.
alarm(adv) ==
  /\ alarmSet
  /\ LET r == tryMatch(queue, now, adv, 1)
         b == broadcastQueueStatus(r.queue)
     IN /\ queue' = b.queue
        /\ now' = r.now
        /\ sent' = r.sent \o b.sent
        /\ pairings' = r.pairings
        /\ alarmSet' = (Len(b.queue) > 0)
        /\ last' = [Turn("alarm", queue, TRUE, queue, r.queue, FALSE)
                     EXCEPT !.again = (last.kind = "alarm")]
  /\ UNCHANGED <<sock, left>>

\* ------------------------------------------- the handlers, line by line
\* The handlers of lines 572-622 once more, one action per statement that
\* reads or writes this.queue. None of them has an await (setAlarm's promise
\* is not awaited), so the event loop gives the object no other event
\* before the running handler has returned.
AlarmId == 0
StepSockets == 1..(NUsers - 1)
StepHandlers == StepSockets \cup {AlarmId}
StepKinds == {"join_queue", "leave_queue", "close"}

Idle == [pc |-> "idle", kind |-> "none", pair |-> <<>>, start |-> <<>>, pre |-> <<>>]

Running == {h \in StepHandlers : run[h].pc # "idle"}

\* An intermediate statement: nothing is sent, no turn has ended.
Midway ==
  /\ sent' = <<>>
  /\ pairings' = <<>>
  /\ last' = Quiet("step")

\* Faulty variant: an event is delivered while another handler is running, as
\* if the handlers awaited between their statements.
MutBeginAnytime(h, kind) ==
  /\ run[h].pc = "idle"
  /\ IF h = AlarmId THEN kind = "alarm" /\ alarmSet
     ELSE /\ kind \in StepKinds
          /\ IF kind = "close" THEN sock[h] = "closing" ELSE Receiving(h)
  /\ run' = [run EXCEPT ![h] =
               [pc |-> CASE kind = "join_queue" -> "add"
                         [] kind = "alarm" -> "match"
                         [] OTHER -> "remove",
                kind |-> kind, pair |-> <<>>, start |-> queue, pre |-> queue]]
  /\ alarmSet' = IF h = AlarmId THEN FALSE ELSE alarmSet
  /\ Midway
  /\ UNCHANGED <<queue, sock, now, left>>

\* The runtime delivers an event (a message, a close, the alarm) to its
\* handler; it does so only when no handler is running.
StepBegin(h, kind) ==
  /\ Running = {}
  /\ IF h = AlarmId THEN kind = "alarm" /\ alarmSet
     ELSE /\ kind \in StepKinds
          /\ IF kind = "close" THEN sock[h] = "closing" ELSE Receiving(h)
  /\ run' = [run EXCEPT ![h] =
               [pc |-> CASE kind = "join_queue" -> "add"
                         [] kind = "alarm" -> "match"
                         [] OTHER -> "remove",
                kind |-> kind, pair |-> <<>>, start |-> queue, pre |-> queue]]
  /\ alarmSet' = IF h = AlarmId THEN FALSE ELSE alarmSet
  /\ Midway
  /\ UNCHANGED <<queue, sock, now, left>>

\* Line 584: this.addToQueue(attachment.username, ws).
StepAdd(h) ==
  /\ run[h].pc = "add"
  /\ queue' = addToQueue(queue, UsernameOf(h), h, now)
  /\ run' = [run EXCEPT ![h].pc = "status"]
  /\ Midway
  /\ UNCHANGED <<sock, now, alarmSet, left>>

\* Line 585: this.sendQueueStatus(ws); a send that throws ends the handler in
\* its catch block.
StepStatus(h) ==
  /\ run[h].pc = "status"
  /\ sent' = IF CanSend(h) THEN <<sendQueueStatus(queue, h)>>
             ELSE <<sendQueueStatus(queue, h), InvalidFormat(h, queue)>>
  /\ run' = [run EXCEPT ![h] = IF CanSend(h) THEN [@ EXCEPT !.pc = "match", !.pre = queue]
                                ELSE Idle]
  /\ pairings' = <<>>
  /\ last' = IF CanSend(h) THEN Quiet("step")
             ELSE Turn(run[h].kind, run[h].start, FALSE, queue, queue, TRUE)
  /\ UNCHANGED <<queue, sock, now, alarmSet, left>>

\* tryMatch, lines 645-649: return when fewer than two entries are left,
\* else take the two that sort first. (Line 668 makes the same test before it
\* calls tryMatch again.)
StepPick(h) ==
  /\ run[h].pc = "match"
  /\ IF Len(queue) < 2
     THEN /\ run' = [run EXCEPT ![h] =
                       IF run[h].kind = "alarm" THEN [@ EXCEPT !.pc = "broadcast"] ELSE Idle]
          /\ last' = Turn(run[h].kind, run[h].start, TRUE, run[h].pre, queue, FALSE)
     ELSE /\ run' = [run EXCEPT ![h].pc = "remove1", ![h].pair = SelectPair(queue)]
          /\ last' = Quiet("step")
  /\ sent' = <<>>
  /\ pairings' = <<>>
  /\ UNCHANGED <<queue, sock, now, alarmSet, left>>

\* Line 651: this.removeFromQueue(user1.username).
StepRemove1(h) ==
  /\ run[h].pc = "remove1"
  /\ queue' = removeFromQueue(queue, run[h].pair[1].username)
  /\ run' = [run EXCEPT ![h].pc = "remove2"]
  /\ Midway
  /\ UNCHANGED <<sock, now, alarmSet, left>>

\* Line 652: this.removeFromQueue(user2.username).
StepRemove2(h) ==
  /\ run[h].pc = "remove2"
  /\ queue' = removeFromQueue(queue, run[h].pair[2].username)
  /\ run' = [run EXCEPT ![h].pc = "send"]
  /\ Midway
  /\ UNCHANGED <<sock, now, alarmSet, left>>

\* Lines 654-666: the two matched messages.
StepSend(h) ==
  /\ run[h].pc = "send"
  /\ sent' = MatchedMessages(run[h].pair[1], run[h].pair[2], queue, now, 0, 1)
  /\ run' = [run EXCEPT ![h].pc = "match", ![h].pair = <<>>]
  /\ pairings' = <<>>
  /\ last' = Quiet("step")
  /\ UNCHANGED <<queue, sock, now, alarmSet, left>>

\* alarm, lines 618-621: broadcastQueueStatus, and setAlarm while entries
\* remain.
StepBroadcast(h) ==
  /\ run[h].pc = "broadcast"
  /\ LET b == broadcastQueueStatus(queue)
     IN /\ queue' = b.queue
        /\ sent' = b.sent
        /\ alarmSet' = (Len(b.queue) > 0)
  /\ run' = [run EXCEPT ![h] = Idle]
  /\ pairings' = <<>>
  /\ last' = Quiet("step")
  /\ UNCHANGED <<sock, now, left>>

\* Line 589, and lines 603-606: this.removeFromQueue(attachment.username);
\* after a close event the socket is gone.
StepRemove(h) ==
  /\ run[h].pc = "remove"
  /\ queue' = removeFromQueue(queue, UsernameOf(h))
  /\ sock' = IF run[h].kind = "close" THEN [sock EXCEPT ![h] = "none"] ELSE sock
  /\ run' = [run EXCEPT ![h] = Idle]
  /\ Midway
  /\ UNCHANGED <<now, alarmSet, left>>

\* MatchingQueue.fetch is a handler too: a connection is accepted between two
\* handlers.
StepFetch(ws) ==
  /\ Running = {}
  /\ fetch(ws)
  /\ UNCHANGED run

\* ------------------------------------------------------ SIWE nonce store
ClientIds == 1..NClients
NonceValues == 1..NNonces
ReqIds == 1..NRequests
\* One more CF-Connecting-IP value, of a caller that only asks for nonces.
Sweeper == NClients + 1
\* The keys the nonceStore Map can hold.
StoreKeys == ClientIds \cup {Sweeper}

\* The nonce lifetime of line 154, 5 * 60 * 1000 ms, in minutes.
NonceTtl == 5

\* nonceStore.get(clientId) of a key the Map does not hold.
NoRecord == [nonce |-> 0, expires |-> 0]

\* Faulty variant: the sweep deletes every record.
MutCleanEveryRecord(store, t) == [c \in StoreKeys |-> NoRecord]

\* cleanExpiredNonces: every record with expires < now is deleted.
cleanExpiredNonces(store, t) ==
  [c \in StoreKeys |->
     IF store[c] # NoRecord /\ store[c].expires < t THEN NoRecord ELSE store[c]]

MutInvalidIgnoresValue(stored, nonce, t) ==
  stored = NoRecord \/ stored.expires < t

MutInvalidIgnoresExpiry(stored, nonce, t) ==
  stored = NoRecord \/ stored.nonce # nonce

\* The condition of line 174: no record, another value, or past its expiry.
InvalidNonce(stored, nonce, t) ==
  stored = NoRecord \/ stored.nonce # nonce \/ stored.expires < t

\* Line 186: nonceStore.delete(clientId).
MutKeepUsedNonce(store, clientId) == store
ClearUsedNonce(store, clientId) == [store EXCEPT ![clientId] = NoRecord]

NoRequest == [clientId |-> 0, nonce |-> 0, body |-> "none", status |-> "none",
              overlapped |-> FALSE, address |-> 0, username |-> 0]

NoAnswer == [clientId |-> 0, nonce |-> 0, body |-> "none", status |-> "none",
             overlapped |-> FALSE, stored |-> NoRecord, address |-> 0, username |-> 0]

NoAudit == [issued |-> FALSE, value |-> 0, expires |-> 0, tried |-> 0,
            accepted |-> 0, redeemed |-> 0, wrong |-> 0,
            issuedAt |-> 0, previous |-> 0]

Bump(n) == IF n < 2 THEN n + 1 ELSE n

MutIssueKeepsPrior(store, clientId, nonce, t) ==
  IF store[clientId] # NoRecord THEN store
  ELSE [store EXCEPT ![clientId] = [nonce |-> nonce, expires |-> t + NonceTtl]]

\* Lines 152-155: nonceStore.set(clientId, {nonce, expires: Date.now() + 5 min}).
IssueNonce(store, clientId, nonce, t) ==
  [store EXCEPT ![clientId] = [nonce |-> nonce, expires |-> t + NonceTtl]]

\* GET /api/nonce (lines 146-164): sweep, generate, store under the caller's
\* clientId with a five-minute expiry, replacing what was stored there. The
\* handler has no await: it runs as one step.
GetNonce(clientId, nonce) ==
  /\ nonceStore' = IssueNonce(cleanExpiredNonces(nonceStore, wallClock),
                               clientId, nonce, wallClock)
  /\ audit' = [audit EXCEPT ![clientId] =
                 [issued |-> TRUE, value |-> nonce, expires |-> wallClock + NonceTtl,
                  tried |-> 0, accepted |-> 0, redeemed |-> 0, wrong |-> 0,
                  issuedAt |-> wallClock, previous |-> audit[clientId].value]]
  /\ answer' = NoAnswer
  /\ UNCHANGED <<wallClock, req, bound>>

\* POST /api/verify-siwe up to its only await (line 169): the request is in
\* flight while request.json() reads the body. body is "ok" (payload is
\* there, with the address and the username given), "nopayload" (payload
\* missing or null) or "badjson" (not JSON).
SiweBegin(rid, clientId, nonce, body, address, username) ==
  /\ req[rid].status # "awaiting"
  /\ LET same(o) == /\ o # rid
                     /\ req[o].status = "awaiting"
                     /\ req[o].clientId = clientId
                     /\ req[o].nonce = nonce
     IN req' = [o \in ReqIds |->
                  IF o = rid
                  THEN [clientId |-> clientId, nonce |-> nonce, body |-> body,
                        status |-> "awaiting",
                        overlapped |-> \E x \in ReqIds : same(x),
                        address |-> IF body = "ok" THEN address ELSE 0,
                        username |-> IF body = "ok" THEN username ELSE 0]
                  ELSE IF same(o) THEN [req[o] EXCEPT !.overlapped = TRUE]
                  ELSE req[o]]
  /\ answer' = NoAnswer
  /\ UNCHANGED <<nonceStore, wallClock, audit, bound>>

\* POST /api/verify-siwe from line 169 on, one uninterrupted step: a body that
\* is not JSON throws into the catch (500); an invalid nonce is answered 400;
\* otherwise the record is deleted and then payload.address is read, which
\* throws into the catch (500) when there is no payload.
SiweFinish(rid) ==
  /\ req[rid].status = "awaiting"
  /\ LET r == req[rid]
         c == r.clientId
         stored == nonceStore[c]
         a == audit[c]
         reached == r.body # "badjson"
         invalid == InvalidNonce(stored, r.nonce, wallClock)
         passed == reached /\ ~invalid
         status == IF ~reached THEN "error500"
                   ELSE IF invalid THEN "invalid400"
                   ELSE IF r.body = "ok" THEN "success" ELSE "error500"
     IN /\ nonceStore' = IF passed THEN ClearUsedNonce(nonceStore, c) ELSE nonceStore
        /\ req' = [req EXCEPT ![rid] = NoRequest]
        /\ answer' = [clientId |-> c, nonce |-> r.nonce, body |-> r.body,
                      status |-> status, overlapped |-> r.overlapped,
                      stored |-> stored,
                      address |-> IF status = "success" THEN r.address ELSE 0,
                      username |-> IF status = "success" THEN r.username ELSE 0]
        /\ bound' = IF status = "success"
                    THEN bound \cup {<<r.address, r.username>>} ELSE bound
        /\ audit' = [audit EXCEPT ![c] =
             [a EXCEPT
                !.tried = IF reached /\ a.issued /\ r.nonce = a.value
                             /\ wallClock <= a.expires
                          THEN Bump(a.tried) ELSE a.tried,
                !.accepted = IF passed THEN Bump(a.accepted) ELSE a.accepted,
                !.redeemed = IF status = "success" THEN Bump(a.redeemed) ELSE a.redeemed,
                !.wrong = IF reached /\ stored # NoRecord /\ stored.nonce # r.nonce
                          THEN 1 ELSE a.wrong]]
  /\ UNCHANGED wallClock

\* Time passes.
Tick ==
  /\ wallClock < MaxWall
  /\ wallClock' = wallClock + 1
  /\ answer' = NoAnswer
  /\ UNCHANGED <<nonceStore, req, audit, bound>>

\* ------------------------------------------------------- users table
Wallets == 1..NWallets
Hashes == 1..NHashes
AttIds == 1..NAttests

\* The spellings of wallet addresses that requests carry: spelling w of
\* 1..NWallets is in lower case, spelling NWallets + w is w in mixed case.
WalletStrings == 1..(2 * NWallets)
toLowerCase(w) == ((w - 1) % NWallets) + 1

\* wallet_address TEXT PRIMARY KEY.
PrimaryKeyOk(rows) ==
  \A r1 \in rows, r2 \in rows :
    r1.wallet_address = r2.wallet_address => r1 = r2

MutNoUniqueIndex(rows) == TRUE

\* nullifier_hash TEXT UNIQUE, and idx_users_nullifier_hash.
UniqueHashOk(rows) ==
  \A r1 \in rows, r2 \in rows :
    r1.nullifier_hash = r2.nullifier_hash => r1 = r2

\* A statement that would break a constraint of the table is aborted and
\* changes nothing.
Constrained(rows, new) ==
  IF PrimaryKeyOk(new) /\ UniqueHashOk(new) THEN new ELSE rows

Row(wallet, hash) ==
  [wallet_address |-> wallet, world_id_verified |-> 1, nullifier_hash |-> hash]

\* SELECT wallet_address FROM users WHERE nullifier_hash = ?
SelectByHash(rows, hash) == {r \in rows : r.nullifier_hash = hash}

\* UPDATE users SET world_id_verified = 1, wallet_address = ?
\* WHERE nullifier_hash = ?
UpdateByHash(rows, wallet, hash) ==
  Constrained(rows, {IF r.nullifier_hash = hash THEN Row(wallet, hash) ELSE r :
                       r \in rows})

\* INSERT INTO users (wallet_address, world_id_verified, nullifier_hash)
\* VALUES (?, 1, ?) ON CONFLICT(wallet_address) DO UPDATE SET
\* world_id_verified = 1, nullifier_hash = ?
Upsert(rows, wallet, hash) ==
  IF \E r \in rows : r.wallet_address = wallet
  THEN Constrained(rows, {IF r.wallet_address = wallet THEN Row(wallet, hash) ELSE r :
                            r \in rows})
  ELSE Constrained(rows, rows \cup {Row(wallet, hash)})

NoAttest == [wallet |-> 0, hash |-> 0, stage |-> "none", existing |-> FALSE]

NoAttAnswer == [wallet |-> 0, hash |-> 0, status |-> "none", existing |-> FALSE,
                wrote |-> FALSE, dbError |-> FALSE]

\* POST /api/verify-worldid up to the SELECT (lines 214-243). hash = 0 is a
\* payload without nullifier_hash, answered 400; signal = 0 is a request
\* without signal, answered verified without a look at the table.
AttestBegin(rid, signal, hash) ==
  /\ att[rid].stage = "none"
  /\ IF hash = 0 \/ signal = 0
     THEN /\ att' = att
          /\ attAnswer' = [wallet |-> 0, hash |-> hash,
                           status |-> IF hash = 0 THEN "missing400" ELSE "verified",
                           existing |-> FALSE, wrote |-> FALSE, dbError |-> FALSE]
     ELSE /\ att' = [att EXCEPT ![rid] =
                       [wallet |-> toLowerCase(signal), hash |-> hash,
                        stage |-> "select", existing |-> FALSE]]
          /\ attAnswer' = NoAttAnswer
  /\ UNCHANGED usersTable

\* The SELECT of lines 241-243 runs.
AttestSelect(rid) ==
  /\ att[rid].stage = "select"
  /\ att' = [att EXCEPT ![rid] =
               [@ EXCEPT !.stage = "write",
                         !.existing = SelectByHash(usersTable, att[rid].hash) # {}]]
  /\ attAnswer' = NoAttAnswer
  /\ UNCHANGED usersTable

\* The UPDATE or the INSERT of lines 245-259 runs; an error of the database is
\* caught and logged (lines 260-263), and the request is answered verified.
AttestWrite(rid) ==
  /\ att[rid].stage = "write"
  /\ LET r == att[rid]
         new == IF r.existing THEN UpdateByHash(usersTable, r.wallet, r.hash)
                ELSE Upsert(usersTable, r.wallet, r.hash)
     IN /\ usersTable' = new
        /\ attAnswer' = [wallet |-> r.wallet, hash |-> r.hash, status |-> "verified",
                         existing |-> r.existing, wrote |-> TRUE,
                         dbError |-> Row(r.wallet, r.hash) \notin new
                                     /\ (r.existing => SelectByHash(usersTable, r.hash) # {})]
  /\ att' = [att EXCEPT ![rid] = NoAttest]

\* Faulty variant: a failure of the database is answered 500.
MutDbFailureIsFatal(rid) ==
  /\ att[rid].stage \in {"select", "write"}
  /\ attAnswer' = [wallet |-> att[rid].wallet, hash |-> att[rid].hash,
                   status |-> "failed500", existing |-> att[rid].existing,
                   wrote |-> FALSE, dbError |-> TRUE]
  /\ att' = [att EXCEPT ![rid] = NoAttest]
  /\ UNCHANGED usersTable

\* The SELECT, or the UPDATE or INSERT, is rejected by the database: the
\* statement changes nothing, the catch of lines 264-267 logs the error, and
\* the request is answered verified (lines 270-275).
AttestDbFails(rid) ==
  /\ att[rid].stage \in {"select", "write"}
  /\ attAnswer' = [wallet |-> att[rid].wallet, hash |-> att[rid].hash,
                   status |-> "verified", existing |-> att[rid].existing,
                   wrote |-> FALSE, dbError |-> TRUE]
  /\ att' = [att EXCEPT ![rid] = NoAttest]
  /\ UNCHANGED usersTable

\* ------------------------------------------------------- /ws gateway
\* SELECT nullifier_hash, world_id_verified FROM users WHERE wallet_address = ?
SelectByWallet(rows, wallet) == {r \in rows : r.wallet_address = wallet}

MutNeverRejects(found) == FALSE

\* Line 461: !user || !user.world_id_verified || !user.nullifier_hash.
NotVerified(found) ==
  \/ found = {}
  \/ \E r \in found : r.world_id_verified = 0 \/ r.nullifier_hash = 0

\* What lines 456-461 take for a verified wallet.
IsVerified(rows, wallet) == ~NotVerified(SelectByWallet(rows, wallet))

NoGate == [wallet |-> 0, stage |-> "none", found |-> {}]

NoGateAnswer == [username |-> 0, wallet |-> 0, status |-> "none", looked |-> FALSE,
                 found |-> {}, pool |-> <<>>, socks |-> <<>>]

GateAnswer(username, wallet, status, looked, found) ==
  [username |-> username, wallet |-> wallet, status |-> status, looked |-> looked,
   found |-> found, pool |-> queue, socks |-> sock]

\* GET /ws up to the SELECT (lines 442-458). named = FALSE is a request
\* without ?username=, answered 400; wallet = 0 is a request without ?wallet=,
\* which goes to the Durable Object as it is.
WsUpgrade(ws, named, wallet) ==
  /\ sock[ws] = "none"
  /\ gate[ws].stage = "none"
  /\ IF ~named
     THEN /\ gateAnswer' = GateAnswer(0, wallet, "400", FALSE, {})
          /\ UNCHANGED <<gate, admitted, coordVars>>
     ELSE IF wallet = 0
     THEN /\ fetch(ws)
          /\ gateAnswer' = GateAnswer(UsernameOf(ws), 0, "101", FALSE, {})
          /\ admitted' = [admitted EXCEPT ![ws] = 0]
          /\ UNCHANGED gate
     ELSE /\ gate' = [gate EXCEPT ![ws] =
                        [wallet |-> toLowerCase(wallet), stage |-> "lookup",
                         found |-> {}]]
          /\ gateAnswer' = NoGateAnswer
          /\ UNCHANGED <<admitted, coordVars>>

\* The SELECT of lines 456-458 runs and lines 461-467 decide: 403 for a
\* wallet that is not verified.
WsLookup(ws) ==
  /\ gate[ws].stage = "lookup"
  /\ LET found == SelectByWallet(usersTable, gate[ws].wallet)
     IN IF NotVerified(found)
        THEN /\ gate' = [gate EXCEPT ![ws] = NoGate]
             /\ gateAnswer' = GateAnswer(UsernameOf(ws), gate[ws].wallet, "403",
                                         TRUE, found)
        ELSE /\ gate' = [gate EXCEPT ![ws] =
                           [@ EXCEPT !.stage = "forward", !.found = found]]
             /\ gateAnswer' = NoGateAnswer
  /\ UNCHANGED <<admitted, coordVars>>

\* Lines 480-482: the request of a verified wallet reaches the Durable Object.
WsForward(ws) ==
  /\ gate[ws].stage = "forward"
  /\ fetch(ws)
  /\ gate' = [gate EXCEPT ![ws] = NoGate]
  /\ gateAnswer' = GateAnswer(UsernameOf(ws), gate[ws].wallet, "101", TRUE,
                              gate[ws].found)
  /\ admitted' = [admitted EXCEPT ![ws] = gate[ws].wallet]

\* ------------------------------------------- daily matches and payments
RefIds == 1..NRefs
\* The transaction ids a client can present: the Developer Portal knows
\* transaction t as a payment with reference t; the last one belongs to a
\* reference of another application.
TxIds == 1..(NRefs + 1)
PayIds == 1..NPayRequests
Counts == 0..MaxCount

\* match_count = MAX(match_count - 5, 0), line 422: the matches a payment
\* grants.
Granted == 5

NoCache == 0 - 1

NoPay == [kind |-> "none", pc |-> "none", wallet |-> 0, ref |-> 0, count |-> 0,
          before |-> 0]

NoPayAnswer == [kind |-> "none", status |-> "none", wallet |-> 0, ref |-> 0,
                count |-> 0, before |-> 0, cached |-> FALSE]

PayAnswer(r, status, count, cached) ==
  [kind |-> r.kind, status |-> status, wallet |-> r.wallet, ref |-> r.ref,
   count |-> count, before |-> r.before, cached |-> cached]

\* GET /api/matches/today (lines 303-318), up to getDailyMatchCount.
MatchesToday(rid, wallet) ==
  /\ pay[rid].kind = "none"
  /\ pay' = [pay EXCEPT ![rid] =
               [NoPay EXCEPT !.kind = "today", !.pc = "cacheGet",
                             !.wallet = toLowerCase(wallet)]]
  /\ payAnswer' = NoPayAnswer
  /\ UNCHANGED <<dailyMatches, kvCache, payments, credit>>

\* POST /api/matches/increment (lines 320-340), up to incrementDailyMatchCount.
MatchesIncrement(rid, wallet) ==
  /\ pay[rid].kind = "none"
  /\ pay' = [pay EXCEPT ![rid] =
               [NoPay EXCEPT !.kind = "increment", !.pc = "upsert",
                             !.wallet = toLowerCase(wallet)]]
  /\ payAnswer' = NoPayAnswer
  /\ UNCHANGED <<dailyMatches, kvCache, payments, credit>>

\* incrementDailyMatchCount, lines 92-96: INSERT ... VALUES (?, ?, 1) ON
\* CONFLICT(wallet_address, date) DO UPDATE SET match_count = match_count + 1.
IncrementUpsert(rid) ==
  /\ pay[rid].pc = "upsert"
  /\ dailyMatches[pay[rid].wallet] < MaxCount
  /\ dailyMatches' = [dailyMatches EXCEPT ![pay[rid].wallet] = @ + 1]
  /\ pay' = [pay EXCEPT ![rid].pc = "select"]
  /\ payAnswer' = NoPayAnswer
  /\ UNCHANGED <<kvCache, payments, credit>>

\* getDailyMatchCount, lines 75-78: a cached count is returned as it is.
CacheGet(rid) ==
  /\ pay[rid].pc = "cacheGet"
  /\ LET r == pay[rid]
         cached == kvCache[r.wallet]
     IN IF cached # NoCache
        THEN /\ pay' = [pay EXCEPT ![rid] = NoPay]
             /\ payAnswer' = PayAnswer(r, "ok", cached, TRUE)
        ELSE /\ pay' = [pay EXCEPT ![rid].pc = "select"]
             /\ payAnswer' = NoPayAnswer
  /\ UNCHANGED <<dailyMatches, kvCache, payments, credit>>

\* SELECT match_count FROM daily_matches WHERE wallet_address = ? AND date = ?
\* (lines 80-84 and 98-102); no row counts as 0.
SelectCount(rid) ==
  /\ pay[rid].pc = "select"
  /\ pay' = [pay EXCEPT ![rid].pc = "cachePut",
                        ![rid].count = dailyMatches[pay[rid].wallet]]
  /\ payAnswer' = NoPayAnswer
  /\ UNCHANGED <<dailyMatches, kvCache, payments, credit>>

\* DAILY_MATCHES_CACHE.put (lines 85 and 104), and the response of the route.
CachePut(rid) ==
  /\ pay[rid].pc = "cachePut"
  /\ kvCache' = [kvCache EXCEPT ![pay[rid].wallet] = pay[rid].count]
  /\ pay' = [pay EXCEPT ![rid] = NoPay]
  /\ payAnswer' = PayAnswer(pay[rid], "ok", pay[rid].count, FALSE)
  /\ UNCHANGED <<dailyMatches, payments, credit>>

\* expirationTtl: 3600. The cached count of a wallet expires.
CacheExpire(wallet) ==
  /\ kvCache[wallet] # NoCache
  /\ kvCache' = [kvCache EXCEPT ![wallet] = NoCache]
  /\ payAnswer' = NoPayAnswer
  /\ UNCHANGED <<dailyMatches, payments, pay, credit>>

\* POST /api/payments/create (lines 346-366): INSERT OR IGNORE INTO payments
\* ... 'pending'. (The row's wallet_address is never read.)
PaymentsCreate(ref) ==
  /\ payments' = [payments EXCEPT ![ref] = IF @ = "none" THEN "pending" ELSE @]
  /\ payAnswer' = [NoPayAnswer EXCEPT !.kind = "create", !.status = "ok", !.ref = ref]
  /\ UNCHANGED <<dailyMatches, kvCache, pay, credit>>

\* POST /api/payments/verify, lines 368-412: the Developer Portal is asked
\* for the transaction. reached = FALSE is a response that is not ok (502);
\* a transaction of another reference is not valid (400); else the payment
\* is marked success.
PaymentsVerify(rid, ref, tx, wallet, reached) ==
  /\ pay[rid].kind = "none"
  /\ pay' = [pay EXCEPT ![rid] =
               [NoPay EXCEPT !.kind = "verify", !.wallet = toLowerCase(wallet),
                             !.ref = ref,
                             !.pc = IF ~reached THEN "failed502"
                                    ELSE IF tx # ref THEN "failed400"
                                    ELSE "success"]]
  /\ payAnswer' = NoPayAnswer
  /\ UNCHANGED <<dailyMatches, kvCache, payments, credit>>

\* markPaymentStatus, lines 114-118: UPDATE payments SET status = ? WHERE
\* reference_id = ?; without a row nothing changes.
markPaymentStatus(table, ref, status) ==
  [table EXCEPT ![ref] = IF @ = "none" THEN @ ELSE status]

\* Lines 397, 407 and 414: the await of markPaymentStatus; the two failures
\* are answered here.
PayMark(rid) ==
  /\ pay[rid].pc \in {"failed502", "failed400", "success"}
  /\ LET r == pay[rid]
     IN IF r.pc = "success"
        THEN /\ payments' = markPaymentStatus(payments, r.ref, "success")
             /\ pay' = [pay EXCEPT ![rid].pc = "grant"]
             /\ payAnswer' = NoPayAnswer
        ELSE /\ payments' = markPaymentStatus(payments, r.ref, "failed")
             /\ pay' = [pay EXCEPT ![rid] = NoPay]
             /\ payAnswer' = PayAnswer(r, r.pc, 0, FALSE)
  /\ UNCHANGED <<dailyMatches, kvCache, credit>>

Max(a, b) == IF a >= b THEN a ELSE b

\* Lines 419-423: INSERT ... VALUES (?, ?, 0) ON CONFLICT(wallet_address,
\* date) DO UPDATE SET match_count = MAX(match_count - 5, 0).
Grant(count) == Max(count - Granted, 0)

\* The await of the grant statement; getDailyMatchCount follows (line 425).
PayGrant(rid) ==
  /\ pay[rid].pc = "grant"
  /\ LET r == pay[rid]
     IN /\ dailyMatches' = [dailyMatches EXCEPT ![r.wallet] = Grant(@)]
        /\ pay' = [pay EXCEPT ![rid].pc = "cacheGet",
                              ![rid].before = dailyMatches[r.wallet]]
        /\ credit' = [credit EXCEPT ![r.ref] = Bump(@)]
  /\ payAnswer' = NoPayAnswer
  /\ UNCHANGED <<kvCache, payments>>


\* ------------------------------------------------------- specifications
Init ==
  /\ queue = <<>>
  /\ sock = [ws \in Sockets |-> "none"]
  /\ now = 0
  /\ alarmSet = FALSE
  /\ sent = <<>>
  /\ pairings = <<>>
  /\ last = Quiet("init")
  /\ left = {}
  /\ nonceStore = [c \in StoreKeys |-> NoRecord]
  /\ wallClock = 0
  /\ req = [rid \in ReqIds |-> NoRequest]
  /\ answer = NoAnswer
  /\ audit = [c \in StoreKeys |-> NoAudit]
  /\ bound = {}
  /\ usersTable = {}
  /\ att = [rid \in AttIds |-> NoAttest]
  /\ attAnswer = NoAttAnswer
  /\ gate = [ws \in Sockets |-> NoGate]
  /\ gateAnswer = NoGateAnswer
  /\ admitted = [ws \in Sockets |-> 0]
  /\ run = [h \in StepHandlers |-> Idle]
  /\ dailyMatches = [w \in Wallets |-> 0]
  /\ kvCache = [w \in Wallets |-> NoCache]
  /\ payments = [r \in RefIds |-> "none"]
  /\ pay = [rid \in PayIds |-> NoPay]
  /\ payAnswer = NoPayAnswer
  /\ credit = [r \in RefIds |-> 0]

\* The handlers that touch the pool, over three usernames of which one holds
\* two connections.
Next ==
  \/ \E ws \in SharingSockets : fetch(ws) /\ UNCHANGED <<nonceVars, ledgerVars, gateVars, stepVars, payVars>>
  \/ \E ws \in SharingSockets : Disconnect(ws) /\ UNCHANGED <<nonceVars, ledgerVars, gateVars, stepVars, payVars>>
  \/ \E ws \in SharingSockets, adv \in Schedules(1, Len(queue) + 1) :
       JoinQueue(ws, adv) /\ UNCHANGED <<nonceVars, ledgerVars, gateVars, stepVars, payVars>>
  \/ \E ws \in SharingSockets : LeaveQueue(ws) /\ UNCHANGED <<nonceVars, ledgerVars, gateVars, stepVars, payVars>>
  \/ \E ws \in SharingSockets : webSocketClose(ws) /\ UNCHANGED <<nonceVars, ledgerVars, gateVars, stepVars, payVars>>
  \/ \E ws \in SharingSockets : webSocketError(ws) /\ UNCHANGED <<nonceVars, ledgerVars, gateVars, stepVars, payVars>>
  \/ \E adv \in Schedules(0, Len(queue)) : alarm(adv) /\ UNCHANGED <<nonceVars, ledgerVars, gateVars, stepVars, payVars>>

Spec == Init /\ [][Next]_vars

\* The pairing pass on larger pools: every username on one connection, which
\* connects, may lose its peer, joins, and is paired by joins and ticks. The
\* usernames are interchangeable here, so they connect in the order of their
\* numbers.
PairNext ==
  \/ \E ws \in PairSockets :
       (\A w \in 1..(ws - 1) : sock[w] # "none") /\ fetch(ws) /\ UNCHANGED <<nonceVars, ledgerVars, gateVars, stepVars, payVars>>
  \/ \E ws \in PairSockets : Disconnect(ws) /\ UNCHANGED <<nonceVars, ledgerVars, gateVars, stepVars, payVars>>
  \/ \E ws \in PairSockets, adv \in Schedules(1, Len(queue) + 1) :
       JoinQueue(ws, adv) /\ UNCHANGED <<nonceVars, ledgerVars, gateVars, stepVars, payVars>>
  \/ \E adv \in Schedules(0, Len(queue)) : alarm(adv) /\ UNCHANGED <<nonceVars, ledgerVars, gateVars, stepVars, payVars>>

PairSpec == Init /\ [][PairNext]_vars

\* PairSpec with the runtime's promise about alarms: an alarm that is set
\* fires. Nothing obliges a client to send a message or the runtime to
\* deliver a close event.
TimerFairSpec ==
  /\ Init
  /\ [][PairNext]_vars
  /\ WF_vars(\E adv \in Schedules(0, Len(queue)) :
               alarm(adv) /\ UNCHANGED <<nonceVars, ledgerVars, gateVars, stepVars, payVars>>)

\* The SIWE handshake of the HTTP worker: nonces are issued, requests to
\* redeem them arrive, wait for their bodies and are answered, time passes.
NonceNext ==
  \/ \E c \in ClientIds, v \in NonceValues : GetNonce(c, v) /\ UNCHANGED <<coordVars, ledgerVars, gateVars, stepVars, payVars>>
  \/ \E rid \in ReqIds, c \in ClientIds, v \in NonceValues,
        body \in {"ok", "nopayload", "badjson"} :
       SiweBegin(rid, c, v, body, 1, 1) /\ UNCHANGED <<coordVars, ledgerVars, gateVars, stepVars, payVars>>
  \/ \E rid \in ReqIds : SiweFinish(rid) /\ UNCHANGED <<coordVars, ledgerVars, gateVars, stepVars, payVars>>
  \/ Tick /\ UNCHANGED <<coordVars, ledgerVars, gateVars, stepVars, payVars>>

NonceSpec == Init /\ [][NonceNext]_vars

\* The nonce store with a second caller: its /api/nonce calls sweep the
\* store while the first caller's nonce ages, one /api/verify-siwe request in
\* flight at a time.
SweepNext ==
  \/ \E c \in ClientIds, v \in NonceValues : GetNonce(c, v) /\ UNCHANGED <<coordVars, ledgerVars, gateVars, stepVars, payVars>>
  \/ GetNonce(Sweeper, 1) /\ UNCHANGED <<coordVars, ledgerVars, gateVars, stepVars, payVars>>
  \/ \E c \in ClientIds, v \in NonceValues, body \in {"ok", "nopayload"} :
       SiweBegin(1, c, v, body, 1, 1) /\ UNCHANGED <<coordVars, ledgerVars, gateVars, stepVars, payVars>>
  \/ SiweFinish(1) /\ UNCHANGED <<coordVars, ledgerVars, gateVars, stepVars, payVars>>
  \/ Tick /\ UNCHANGED <<coordVars, ledgerVars, gateVars, stepVars, payVars>>

SweepSpec == Init /\ [][SweepNext]_vars

\* The World ID ledger: /api/verify-worldid requests arrive, and their
\* SELECT and their write run at any later moments, in any interleaving.
LedgerNext ==
  \/ \E rid \in AttIds, signal \in WalletStrings \cup {0}, hash \in Hashes \cup {0} :
       AttestBegin(rid, signal, hash) /\ UNCHANGED <<coordVars, nonceVars, gateVars, stepVars, payVars>>
  \/ \E rid \in AttIds : AttestSelect(rid) /\ UNCHANGED <<coordVars, nonceVars, gateVars, stepVars, payVars>>
  \/ \E rid \in AttIds : AttestWrite(rid) /\ UNCHANGED <<coordVars, nonceVars, gateVars, stepVars, payVars>>
  \/ \E rid \in AttIds : AttestDbFails(rid) /\ UNCHANGED <<coordVars, nonceVars, gateVars, stepVars, payVars>>

LedgerSpec == Init /\ [][LedgerNext]_vars

\* The way into the pool: wallets are verified through /api/verify-worldid,
\* /ws requests for the first two usernames pass the gateway, and the
\* connections join the queue.
GateSockets == 1..2

GateNext ==
  \/ \E signal \in WalletStrings, hash \in Hashes :
       AttestBegin(1, signal, hash) /\ UNCHANGED <<coordVars, nonceVars, gateVars, stepVars, payVars>>
  \/ AttestSelect(1) /\ UNCHANGED <<coordVars, nonceVars, gateVars, stepVars, payVars>>
  \/ AttestWrite(1) /\ UNCHANGED <<coordVars, nonceVars, gateVars, stepVars, payVars>>
  \/ \E ws \in GateSockets, named \in BOOLEAN, wallet \in WalletStrings \cup {0} :
       WsUpgrade(ws, named, wallet) /\ UNCHANGED <<nonceVars, ledgerVars, stepVars, payVars>>
  \/ \E ws \in GateSockets : WsLookup(ws) /\ UNCHANGED <<nonceVars, ledgerVars, stepVars, payVars>>
  \/ \E ws \in GateSockets : WsForward(ws) /\ UNCHANGED <<nonceVars, ledgerVars, stepVars, payVars>>
  \/ \E ws \in GateSockets :
       /\ JoinQueue(ws, 0)
       /\ gateAnswer' = NoGateAnswer
       /\ UNCHANGED <<gate, admitted, nonceVars, ledgerVars, stepVars, payVars>>

GateSpec == Init /\ [][GateNext]_vars

\* The whole sign-in of one connection: /api/verify-siwe binds usernames to
\* wallet addresses, /api/verify-worldid verifies wallets, /ws admits.
IdentityNext ==
  \/ GetNonce(1, 1) /\ UNCHANGED <<coordVars, ledgerVars, gateVars, stepVars, payVars>>
  \/ \E address \in Wallets, username \in 1..2 :
       SiweBegin(1, 1, 1, "ok", address, username)
       /\ UNCHANGED <<coordVars, ledgerVars, gateVars, stepVars, payVars>>
  \/ SiweFinish(1) /\ UNCHANGED <<coordVars, ledgerVars, gateVars, stepVars, payVars>>
  \/ \E signal \in Wallets, hash \in Hashes :
       AttestBegin(1, signal, hash) /\ UNCHANGED <<coordVars, nonceVars, gateVars, stepVars, payVars>>
  \/ AttestSelect(1) /\ UNCHANGED <<coordVars, nonceVars, gateVars, stepVars, payVars>>
  \/ AttestWrite(1) /\ UNCHANGED <<coordVars, nonceVars, gateVars, stepVars, payVars>>
  \/ \E named \in BOOLEAN, wallet \in Wallets \cup {0} :
       WsUpgrade(1, named, wallet) /\ UNCHANGED <<nonceVars, ledgerVars, stepVars, payVars>>
  \/ WsLookup(1) /\ UNCHANGED <<nonceVars, ledgerVars, stepVars, payVars>>
  \/ WsForward(1) /\ UNCHANGED <<nonceVars, ledgerVars, stepVars, payVars>>
  \/ /\ JoinQueue(1, 0)
     /\ gateAnswer' = NoGateAnswer
     /\ UNCHANGED <<gate, admitted, nonceVars, ledgerVars, stepVars, payVars>>

IdentitySpec == Init /\ [][IdentityNext]_vars

\* The messages of webSocketMessage other than leave_queue, on the
\* connections of the first two usernames, with the timer.
ReplySockets == 1..2
ReplyKinds == {"heartbeat", "unknown", "malformed"}

ReplyNext ==
  \/ \E ws \in ReplySockets : fetch(ws) /\ UNCHANGED <<nonceVars, ledgerVars, gateVars, stepVars, payVars>>
  \/ \E ws \in ReplySockets : Disconnect(ws) /\ UNCHANGED <<nonceVars, ledgerVars, gateVars, stepVars, payVars>>
  \/ \E ws \in ReplySockets, adv \in Schedules(1, Len(queue) + 1) :
       JoinQueue(ws, adv) /\ UNCHANGED <<nonceVars, ledgerVars, gateVars, stepVars, payVars>>
  \/ \E ws \in ReplySockets, kind \in ReplyKinds :
       Reply(ws, kind) /\ UNCHANGED <<nonceVars, ledgerVars, gateVars, stepVars, payVars>>
  \/ \E ws \in ReplySockets : webSocketClose(ws) /\ UNCHANGED <<nonceVars, ledgerVars, gateVars, stepVars, payVars>>
  \/ \E adv \in Schedules(0, Len(queue)) : alarm(adv) /\ UNCHANGED <<nonceVars, ledgerVars, gateVars, stepVars, payVars>>

ReplySpec == Init /\ [][ReplyNext]_vars

\* The handlers statement by statement; a peer may go away at any moment.
StepNext ==
  \/ \E ws \in StepSockets : StepFetch(ws) /\ UNCHANGED <<nonceVars, ledgerVars, gateVars, payVars>>
  \/ \E ws \in StepSockets :
       Disconnect(ws) /\ UNCHANGED <<nonceVars, ledgerVars, gateVars, stepVars, payVars>>
  \/ \E h \in StepHandlers, kind \in StepKinds \cup {"alarm"} :
       StepBegin(h, kind) /\ UNCHANGED <<nonceVars, ledgerVars, gateVars, payVars>>
  \/ \E h \in StepHandlers : StepAdd(h) /\ UNCHANGED <<nonceVars, ledgerVars, gateVars, payVars>>
  \/ \E h \in StepHandlers : StepStatus(h) /\ UNCHANGED <<nonceVars, ledgerVars, gateVars, payVars>>
  \/ \E h \in StepHandlers : StepPick(h) /\ UNCHANGED <<nonceVars, ledgerVars, gateVars, payVars>>
  \/ \E h \in StepHandlers : StepRemove1(h) /\ UNCHANGED <<nonceVars, ledgerVars, gateVars, payVars>>
  \/ \E h \in StepHandlers : StepRemove2(h) /\ UNCHANGED <<nonceVars, ledgerVars, gateVars, payVars>>
  \/ \E h \in StepHandlers : StepSend(h) /\ UNCHANGED <<nonceVars, ledgerVars, gateVars, payVars>>
  \/ \E h \in StepHandlers : StepBroadcast(h) /\ UNCHANGED <<nonceVars, ledgerVars, gateVars, payVars>>
  \/ \E h \in StepHandlers : StepRemove(h) /\ UNCHANGED <<nonceVars, ledgerVars, gateVars, payVars>>

StepSpec == Init /\ [][StepNext]_vars

\* The freemium routes for one wallet, in two spellings, and one payment
\* reference.
PayWalletStrings == {1, NWallets + 1}

PayNext ==
  \/ \E rid \in PayIds, wallet \in PayWalletStrings :
       MatchesToday(rid, wallet) /\ UNCHANGED <<coordVars, nonceVars, ledgerVars, gateVars, stepVars>>
  \/ \E rid \in PayIds, wallet \in PayWalletStrings :
       MatchesIncrement(rid, wallet) /\ UNCHANGED <<coordVars, nonceVars, ledgerVars, gateVars, stepVars>>
  \/ \E rid \in PayIds : IncrementUpsert(rid) /\ UNCHANGED <<coordVars, nonceVars, ledgerVars, gateVars, stepVars>>
  \/ \E rid \in PayIds : CacheGet(rid) /\ UNCHANGED <<coordVars, nonceVars, ledgerVars, gateVars, stepVars>>
  \/ \E rid \in PayIds : SelectCount(rid) /\ UNCHANGED <<coordVars, nonceVars, ledgerVars, gateVars, stepVars>>
  \/ \E rid \in PayIds : CachePut(rid) /\ UNCHANGED <<coordVars, nonceVars, ledgerVars, gateVars, stepVars>>
  \/ \E wallet \in Wallets : CacheExpire(wallet) /\ UNCHANGED <<coordVars, nonceVars, ledgerVars, gateVars, stepVars>>
  \/ \E ref \in RefIds : PaymentsCreate(ref) /\ UNCHANGED <<coordVars, nonceVars, ledgerVars, gateVars, stepVars>>
  \/ \E rid \in PayIds, ref \in RefIds, tx \in TxIds, wallet \in PayWalletStrings, reached \in BOOLEAN :
       PaymentsVerify(rid, ref, tx, wallet, reached)
       /\ UNCHANGED <<coordVars, nonceVars, ledgerVars, gateVars, stepVars>>
  \/ \E rid \in PayIds : PayMark(rid) /\ UNCHANGED <<coordVars, nonceVars, ledgerVars, gateVars, stepVars>>
  \/ \E rid \in PayIds : PayGrant(rid) /\ UNCHANGED <<coordVars, nonceVars, ledgerVars, gateVars, stepVars>>

PaySpec == Init /\ [][PayNext]_vars

\* Every event of the Durable Object, on two connections of the first
\* username and one of the second.
PoolSockets == {1, 2, NUsers + 1}

PoolNext ==
  \/ constructor /\ UNCHANGED <<nonceVars, ledgerVars, gateVars, stepVars, payVars>>
  \/ fetchStatus /\ UNCHANGED <<nonceVars, ledgerVars, gateVars, stepVars, payVars>>
  \/ \E ws \in PoolSockets : fetch(ws) /\ UNCHANGED <<nonceVars, ledgerVars, gateVars, stepVars, payVars>>
  \/ \E ws \in PoolSockets : Disconnect(ws) /\ UNCHANGED <<nonceVars, ledgerVars, gateVars, stepVars, payVars>>
  \/ \E ws \in PoolSockets, adv \in Schedules(1, Len(queue) + 1) :
       JoinQueue(ws, adv) /\ UNCHANGED <<nonceVars, ledgerVars, gateVars, stepVars, payVars>>
  \/ \E ws \in PoolSockets : LeaveQueue(ws) /\ UNCHANGED <<nonceVars, ledgerVars, gateVars, stepVars, payVars>>
  \/ \E ws \in PoolSockets, kind \in ReplyKinds :
       Reply(ws, kind) /\ UNCHANGED <<nonceVars, ledgerVars, gateVars, stepVars, payVars>>
  \/ \E ws \in PoolSockets : webSocketClose(ws) /\ UNCHANGED <<nonceVars, ledgerVars, gateVars, stepVars, payVars>>
  \/ \E ws \in PoolSockets : webSocketError(ws) /\ UNCHANGED <<nonceVars, ledgerVars, gateVars, stepVars, payVars>>
  \/ \E adv \in Schedules(0, Len(queue)) : alarm(adv) /\ UNCHANGED <<nonceVars, ledgerVars, gateVars, stepVars, payVars>>

PoolSpec == Init /\ [][PoolNext]_vars

\* ======================================================================
\* Properties of the matching coordinator
\* ======================================================================
\* The matched messages of the last turn, in the order they were sent.
Matched == SelectSeq(sent, LAMBDA m : m.type = "matched")

Unique(q) == \A i, j \in 1..Len(q) : i # j => q[i].username # q[j].username

Entries(q) == {q[i] : i \in 1..Len(q)}

\* The position of entry e in the pool q (its place in the insertion order).
IndexOf(q, e) == CHOOSE i \in 1..Len(q) : q[i] = e

\* C1: the pool never holds two entries of one username, and a join_queue
\* leaves exactly one entry for the joiner: the other entries as they were,
\* followed by an entry with the joiner's socket and a joinedAt that is not
\* before any entry's of the pool it joined and not after the clock.
C1_OneEntryPerIdentity ==
  /\ Unique(queue)
  /\ last.kind = "join_queue" =>
       LET ws == sent[1].to
           u == UsernameOf(ws)
           q0 == last.start
           q1 == last.pre
           e == q1[Len(q1)]
       IN /\ Len(q1) >= 1
          /\ Unique(q1)
          /\ e.username = u
          /\ e.websocket = ws
          /\ e.joinedAt <= now
          /\ \A i \in 1..Len(q0) : q0[i].joinedAt <= e.joinedAt
          /\ SubSeq(q1, 1, Len(q1) - 1) = SelectSeq(q0, LAMBDA x : x.username # u)

\* C1 witness: a join_queue under a username that was queued on another
\* socket and at an earlier time.
C1_Witness ==
  /\ last.kind = "join_queue"
  /\ \E i \in 1..Len(last.start) :
       /\ last.start[i].username = UsernameOf(sent[1].to)
       /\ last.start[i].websocket # sent[1].to
       /\ last.start[i].joinedAt < last.pre[Len(last.pre)].joinedAt

\* C2: the two entries of every pairing have different usernames, each
\* matched message names a username other than its receiver's, and neither
\* username has an entry in the pool right after the pairing or at the end of
\* the turn.
C2_PairDistinctAndRemoved ==
  /\ \A k \in 1..Len(pairings) :
       LET p == pairings[k]
       IN /\ p.user1.username # p.user2.username
          /\ {p.user1.username, p.user2.username} \cap QueuedNames(p.after) = {}
          /\ {p.user1.username, p.user2.username} \cap QueuedNames(queue) = {}
  /\ \A i \in 1..Len(Matched) : Matched[i].matchedUsername # UsernameOf(Matched[i].to)

\* C2 witness: a pass that made two pairings.
C2_Witness == Len(pairings) = 2 /\ Len(Matched) = 4

\* C3: when a matched message is sent, neither its receiver nor the username
\* it names is in the pool any more, and the pairings of one pass consume
\* pairwise different entries, each taken from the pool as the pairing found it.
C3_RemovedBeforeSend ==
  /\ \A i \in 1..Len(Matched) :
       /\ UsernameOf(Matched[i].to) \notin Matched[i].queued
       /\ Matched[i].matchedUsername \notin Matched[i].queued
  /\ \A k \in 1..Len(pairings) :
       /\ {pairings[k].user1, pairings[k].user2} \subseteq Entries(pairings[k].before)
       /\ \A j \in 1..(k - 1) :
            {pairings[j].user1, pairings[j].user2}
              \cap {pairings[k].user1, pairings[k].user2} = {}

\* C3 witness: two pairings in one pass, a matched message delivered while
\* another entry is still waiting to be paired.
C3_Witness ==
  /\ Len(pairings) = 2
  /\ \E i \in 1..Len(Matched) : Matched[i].delivered /\ Matched[i].queued # {}

\* C4: a pairing pass entered with n entries makes n div 2 pairings, each
\* taking exactly two entries out, sends two matched messages per pairing and
\* returns with n mod 2 entries; entered with fewer than two it returns the
\* pool as it was and sends no matched message.
C4_PassPairsAll ==
  last.ran =>
    LET n == Len(last.pre)
    IN /\ Len(pairings) = n \div 2
       /\ \A k \in 1..Len(pairings) :
            Len(pairings[k].after) = Len(pairings[k].before) - 2
       /\ Len(Matched) = 2 * (n \div 2)
       /\ Len(last.post) = n % 2
       /\ n < 2 => last.post = last.pre /\ Matched = <<>>

\* C4 witness: a pass entered with four entries.
C4_Witness == last.ran /\ Len(last.pre) = 4 /\ Len(pairings) = 2 /\ last.post = <<>>

\* C5: every entry a pairing leaves in the pool comes after both paired
\* entries in the order by joinedAt, then by insertion; and a join_queue puts
\* the joiner last in that order.
Before(q, a, b) ==
  \/ a.joinedAt < b.joinedAt
  \/ a.joinedAt = b.joinedAt /\ IndexOf(q, a) < IndexOf(q, b)

C5_Fifo ==
  /\ \A k \in 1..Len(pairings) :
       LET p == pairings[k]
       IN /\ Before(p.before, p.user1, p.user2)
          /\ \A e \in Entries(p.after) :
               /\ e \in Entries(p.before)
               /\ Before(p.before, p.user1, e)
               /\ Before(p.before, p.user2, e)
  /\ last.kind = "join_queue" =>
       \A e \in Entries(last.pre) :
         e.username # UsernameOf(sent[1].to) =>
           Before(last.pre, e, last.pre[Len(last.pre)])

\* C5 witness: a pairing of two entries enqueued at different times that
\* leaves behind an entry enqueued no earlier than either.
C5_Witness ==
  \E k \in 1..Len(pairings) :
    /\ pairings[k].user1.joinedAt < pairings[k].user2.joinedAt
    /\ \E e \in Entries(pairings[k].after) : pairings[k].user2.joinedAt <= e.joinedAt

\* C6: the matched messages of a turn are exactly, pairing by pairing, one to
\* the first entry's socket naming the second entry's username and one to the
\* second entry's socket naming the first's: no other socket gets one.
C6_OneMatchedEach ==
  /\ Len(Matched) = 2 * Len(pairings)
  /\ \A k \in 1..Len(pairings) :
       /\ Matched[2 * k - 1].to = pairings[k].user1.websocket
       /\ Matched[2 * k - 1].matchedUsername = pairings[k].user2.username
       /\ Matched[2 * k].to = pairings[k].user2.websocket
       /\ Matched[2 * k].matchedUsername = pairings[k].user1.username

\* C6 witness: the first username is paired through its second connection,
\* which gets the matched message, while its first connection is open.
C6_Witness ==
  /\ Len(pairings) = 1
  /\ sock[1] = "open"
  /\ \E i \in 1..2 : Matched[i].to = NUsers + 1 /\ Matched[i].delivered

\* C7 (as claimed): the two matched messages of a pairing carry the same
\* matchedAt.
C7_SharedMatchedAt ==
  \A k \in 1..Len(pairings) :
    2 * k <= Len(Matched) => Matched[2 * k - 1].matchedAt = Matched[2 * k].matchedAt

\* C8: when a socket of a pairing cannot be sent to, both matched messages
\* are still attempted, the one to an open socket is delivered, neither
\* username is back in the pool, the pass goes on while two entries remain,
\* and no exception leaves the handler.
C8_DeliveryFailureContained ==
  last.ran =>
    \A k \in 1..Len(pairings) :
      LET p == pairings[k]
      IN (~CanSend(p.user1.websocket) \/ ~CanSend(p.user2.websocket)) =>
           /\ 2 * k <= Len(Matched)
           /\ Matched[2 * k - 1].to = p.user1.websocket
           /\ Matched[2 * k].to = p.user2.websocket
           /\ Matched[2 * k - 1].delivered = CanSend(p.user1.websocket)
           /\ Matched[2 * k].delivered = CanSend(p.user2.websocket)
           /\ {p.user1.username, p.user2.username} \cap QueuedNames(last.post) = {}
           /\ Len(p.after) >= 2 => k < Len(pairings)
           /\ ~last.threw

\* C8 witness: the first pairing of a pass delivers to one party only, and
\* the pass goes on to a second pairing that delivers.
C8_Witness ==
  /\ Len(pairings) = 2
  /\ Len(Matched) = 4
  /\ Matched[1].delivered # Matched[2].delivered
  /\ Matched[3].delivered \/ Matched[4].delivered


\* ======================================================================
\* Properties of the SIWE nonce store
\* ======================================================================

\* The step just taken answered a /api/verify-siwe request whose body parsed.
Answered == answer.status # "none" /\ answer.body # "badjson"

\* C9: a nonce is redeemed at most once. Since /api/nonce last issued to a
\* clientId, at most one request has passed the nonce check, and exactly one
\* has as soon as any request carried the issued value before its expiry, be
\* the requests one after the other or in flight together; from then on the
\* record is gone, and a request that finds no record is answered 400
\* "Invalid or expired nonce" until /api/nonce issues again. The request that
\* passes is answered with success when it carries a payload.
C9_RedeemedAtMostOnce ==
  /\ \A c \in ClientIds :
       /\ audit[c].accepted <= 1
       /\ audit[c].redeemed <= audit[c].accepted
       /\ (audit[c].tried >= 1 => audit[c].accepted = 1)
       /\ (audit[c].accepted = 1 => nonceStore[c] = NoRecord)
  /\ (Answered /\ answer.stored = NoRecord => answer.status = "invalid400")
  /\ (Answered /\ answer.body = "ok"
        /\ ~InvalidNonce(answer.stored, answer.nonce, wallClock)
      => answer.status = "success")

\* Two requests with the same clientId and the issued value were in flight
\* together before the expiry: one was answered with success, and the other
\* has just been answered 400.
C9_Witness ==
  /\ Answered
  /\ answer.overlapped
  /\ answer.status = "invalid400"
  /\ LET a == audit[answer.clientId]
     IN /\ a.issued
        /\ answer.nonce = a.value
        /\ wallClock <= a.expires
        /\ a.tried = 2
        /\ a.redeemed = 1

\* C10: a request with a value other than the stored one is answered 400 and
\* leaves the record as it was, and the first request that then carries the
\* issued value and a payload before the expiry is answered with success.
C10_WrongValueLeavesRecord ==
  /\ (Answered /\ answer.stored # NoRecord /\ answer.stored.nonce # answer.nonce
      => /\ answer.status = "invalid400"
         /\ nonceStore[answer.clientId] = answer.stored)
  /\ (Answered /\ answer.body = "ok"
        /\ audit[answer.clientId].issued
        /\ audit[answer.clientId].wrong = 1
        /\ answer.nonce = audit[answer.clientId].value
        /\ wallClock <= audit[answer.clientId].expires
        /\ audit[answer.clientId].tried = 1
      => answer.status = "success")

\* A request with the wrong value was refused, time passed, and the request
\* with the issued value has just been answered with success.
C10_Witness ==
  /\ Answered
  /\ answer.status = "success"
  /\ audit[answer.clientId].wrong = 1
  /\ wallClock > audit[answer.clientId].expires - NonceTtl


\* C11: at most one nonce is live per clientId, the one /api/nonce issued
\* last. A stored record holds the value issued last, and after a second
\* issue a request that carries the earlier, different value is answered 400
\* "Invalid or expired nonce", while the first one that carries the newest
\* value and a payload before the expiry is answered with success.
C11_NewestNonceOnly ==
  /\ \A c \in ClientIds :
       nonceStore[c] # NoRecord => nonceStore[c].nonce = audit[c].value
  /\ (Answered
        /\ audit[answer.clientId].previous # 0
        /\ audit[answer.clientId].previous # audit[answer.clientId].value
      => /\ (answer.nonce = audit[answer.clientId].previous
               => answer.status = "invalid400")
         /\ (answer.nonce = audit[answer.clientId].value
               /\ answer.body = "ok"
               /\ wallClock <= audit[answer.clientId].expires
               /\ audit[answer.clientId].tried = 1
             => answer.status = "success"))

\* /api/nonce issued twice to a clientId, with different values; before either
\* could expire, a request with the earlier value has just been answered 400
\* although a record is stored.
C11_Witness ==
  /\ Answered
  /\ answer.status = "invalid400"
  /\ answer.stored # NoRecord
  /\ wallClock < NonceTtl
  /\ audit[answer.clientId].previous # 0
  /\ audit[answer.clientId].previous # audit[answer.clientId].value
  /\ answer.nonce = audit[answer.clientId].previous


\* C12: a nonce lives five minutes. A stored record expires NonceTtl after
\* the /api/nonce call that stored it, and every request that is answered
\* later than that is answered 400 "Invalid or expired nonce", be the record
\* still in the store or already swept by another caller's /api/nonce.
C12_ExpiredNonceRefused ==
  /\ \A c \in StoreKeys :
       nonceStore[c] # NoRecord
       => nonceStore[c].expires = audit[c].issuedAt + NonceTtl
  /\ (Answered
        /\ audit[answer.clientId].issued
        /\ wallClock > audit[answer.clientId].issuedAt + NonceTtl
      => answer.status = "invalid400")

\* The record was still stored, with the value the request carried, when the
\* request was answered 400 after the expiry.
C12_Witness ==
  /\ Answered
  /\ answer.status = "invalid400"
  /\ answer.stored # NoRecord
  /\ answer.stored.nonce = answer.nonce
  /\ wallClock > answer.stored.expires

\* The other case of C12: the record had been swept by the other caller's
\* /api/nonce when the request with the issued value was answered 400.
C12_SweptCase ==
  /\ Answered
  /\ answer.status = "invalid400"
  /\ answer.stored = NoRecord
  /\ audit[answer.clientId].issued
  /\ audit[answer.clientId].accepted = 0
  /\ answer.nonce = audit[answer.clientId].value
  /\ wallClock > audit[answer.clientId].expires


\* ======================================================================
\* Properties of the World ID ledger
\* ======================================================================

\* C13: whatever the interleaving of the SELECTs and the writes of
\* /api/verify-worldid requests, no nullifier_hash is in the rows of two
\* wallets and no wallet_address has two rows.
C13_LedgerOneToOne ==
  \A r1 \in usersTable, r2 \in usersTable :
    /\ (r1.nullifier_hash = r2.nullifier_hash => r1 = r2)
    /\ (r1.wallet_address = r2.wallet_address => r1 = r2)

\* Two requests with one nullifier_hash and two wallets both ran their SELECT
\* before either wrote; the second INSERT has just been aborted and the hash
\* stays with the first wallet.
C13_Witness ==
  /\ attAnswer.wrote
  /\ ~attAnswer.existing
  /\ attAnswer.dbError
  /\ \E r \in usersTable : /\ r.nullifier_hash = attAnswer.hash
                      /\ r.wallet_address # attAnswer.wallet


\* ======================================================================
\* Properties of the /ws gateway
\* ======================================================================

\* C14: only verified users enter the matching queue. Every connection the
\* Durable Object holds, and so every queue entry, was admitted with a wallet
\* for which the users table has a row with world_id_verified and
\* nullifier_hash set.
C14_OnlyVerifiedAdmitted ==
  /\ \A ws \in Sockets :
       sock[ws] # "none"
       => admitted[ws] # 0 /\ IsVerified(usersTable, admitted[ws])
  /\ \A i \in 1..Len(queue) :
       /\ admitted[queue[i].websocket] # 0
       /\ IsVerified(usersTable, admitted[queue[i].websocket])

\* C15: a /ws request without a username is answered 400 and one with a
\* wallet that is not verified is answered 403, and with either answer the
\* Durable Object holds the connections and the queue it held before.
C15_RejectedUpgrade ==
  /\ (gateAnswer.status # "none" /\ gateAnswer.username = 0
      => gateAnswer.status = "400")
  /\ (gateAnswer.status # "none" /\ gateAnswer.username # 0
        /\ gateAnswer.looked
        /\ ~(\E r \in gateAnswer.found : /\ r.wallet_address = gateAnswer.wallet
                                          /\ r.world_id_verified = 1
                                          /\ r.nullifier_hash # 0)
      => gateAnswer.status = "403")
  /\ (gateAnswer.status \in {"400", "403"}
      => queue = gateAnswer.pool /\ sock = gateAnswer.socks)

\* While a user waits in the queue, a /ws request with a wallet that has no
\* row has just been answered 403.
C15_Witness ==
  /\ gateAnswer.status = "403"
  /\ gateAnswer.wallet # 0
  /\ ~IsVerified(usersTable, gateAnswer.wallet)
  /\ Len(queue) = 1


\* C16: a connection is admitted and queued under the username that
\* /api/verify-siwe bound to its wallet address: when the username of a
\* connection has been bound to some wallet, it has been bound to the wallet
\* the connection was admitted with.
C16_AdmittedAsBound ==
  \A ws \in Sockets :
    sock[ws] # "none" /\ (\E w \in Wallets : <<w, UsernameOf(ws)>> \in bound)
    => <<admitted[ws], UsernameOf(ws)>> \in bound


\* ======================================================================
\* Properties of the WebSocket handlers
\* ======================================================================

\* C17: every handled join_queue runs a pairing pass before the handler
\* returns, so that when a join handler has returned the pool holds fewer
\* than two entries.
C17_JoinRunsPairing ==
  last.kind = "join_queue" => last.ran /\ Len(queue) < 2


\* The 1-based rank of the entry at index i of q by joinedAt, entries of one
\* joinedAt ranking in the order of their insertion.
RankOf(q, i) ==
  1 + Cardinality({j \in 1..Len(q) :
                     \/ q[j].joinedAt < q[i].joinedAt
                     \/ (q[j].joinedAt = q[i].joinedAt /\ j < i)})

\* C18: on every join_queue the handler sends the requester one queue_status,
\* and sends it first: its position is the rank by joinedAt of the requester's
\* entry in the pool that holds that entry, its total is the size of that
\* pool, and every matched message of the join comes after it. It is delivered
\* when the requester's socket is open.
C18_JoinStatus ==
  last.kind = "join_queue"
  => /\ Len(sent) >= 1
     /\ sent[1].type = "queue_status"
     /\ Cardinality({i \in 1..Len(sent) : sent[i].type = "queue_status"}) = 1
     /\ Len(last.pre) >= 1
     /\ last.pre[Len(last.pre)].websocket = sent[1].to
     /\ sent[1].position = RankOf(last.pre, Len(last.pre))
     /\ sent[1].total = Len(last.pre)
     /\ sent[1].queued = QueuedNames(last.pre)
     /\ (sent[1].delivered <=> sock[sent[1].to] = "open")
     /\ \A i \in 1..Len(sent) : sent[i].type = "matched" => i > 1

\* A join that found one user waiting: the requester was sent position 2 of 2
\* and then the two matched messages went out.
C18_Witness ==
  /\ last.kind = "join_queue"
  /\ Len(sent) = 3
  /\ sent[1].type = "queue_status"
  /\ sent[1].delivered
  /\ sent[1].position = 2
  /\ sent[1].total = 2
  /\ sent[2].type = "matched"
  /\ sent[3].type = "matched"


\* C19: after the leave_queue of a queued identity its entry is out of the
\* pool, and until a join_queue under that username no handler, the alarm
\* included, sends a matched or a queue_status message to a connection of
\* that username.
C19_LeftGetsNothing ==
  \A u \in left :
    /\ u \notin QueuedNames(queue)
    /\ \A i \in 1..Len(sent) :
         sent[i].type \in {"matched", "queue_status"} => UsernameOf(sent[i].to) # u

\* An identity has left and not joined again, and the alarm has just told the
\* user who still waits its position.
C19_Witness ==
  /\ left # {}
  /\ last.kind = "alarm"
  /\ \E i \in 1..Len(sent) : sent[i].type = "queue_status" /\ sent[i].delivered
  /\ \E ws \in Sockets : UsernameOf(ws) \in left /\ sock[ws] = "open"


\* C20: a close or an error event removes the entry stored under the
\* username of its connection, keeps every other entry in its place and sends
\* nothing; handled for a username that has no entry, or right after an error
\* event for the same username, it leaves the pool as it was.
C20_CloseRemovesOnce ==
  last.kind \in {"close", "error"}
  => /\ sent = <<>>
     /\ pairings = <<>>
     /\ queue = last.post
     /\ last.who \notin QueuedNames(queue)
     /\ queue = SelectSeq(last.start, LAMBDA e : e.username # last.who)
     /\ (last.who \notin QueuedNames(last.start) => queue = last.start)
     /\ (last.again => queue = last.start)

\* The error event of a connection removed its entry, and the close event
\* that followed has just left the pool, where another user waits, as it was.
C20_Witness ==
  /\ last.kind = "close"
  /\ last.again
  /\ queue # <<>>
  /\ queue = last.start


\* The connections that the turn just taken sent a matched message to.
JustMatched == {sent[i].to : i \in {j \in 1..Len(sent) : sent[j].type = "matched"}}

\* C21: matched is terminal for a connection: a connection that has been
\* paired holds no queue entry afterwards. Stated for the step that follows
\* the pairing: no step puts a connection that was just sent matched into the
\* pool.
C21_MatchedIsTerminal ==
  [][\A ws \in JustMatched :
       \A i \in 1..Len(queue') : queue'[i].websocket # ws]_vars


\* C22: whenever the pool is not empty between handler turns, an alarm is
\* pending.
C22_TimerWhilePoolNonEmpty == Len(queue) > 0 => alarmSet


\* C23: a tick sends, after the matched messages of its pairing pass, one
\* queue_status to the socket of every entry the pass left in the pool, with
\* the entry's rank by joinedAt as position and the size of the pool as
\* total, so that 1 <= position <= total; a user who waits alone is sent
\* position 1 of 1 and no matched message.
C23_TickStatus ==
  last.kind = "alarm"
  => LET m == 2 * Len(pairings)
         rest == last.post
     IN /\ Len(sent) = m + Len(rest)
        /\ \A i \in 1..m : sent[i].type = "matched"
        /\ \A i \in 1..Len(rest) :
             \E j \in (m + 1)..Len(sent) :
               /\ sent[j].type = "queue_status"
               /\ sent[j].to = rest[i].websocket
               /\ sent[j].position = RankOf(rest, i)
               /\ sent[j].total = Len(rest)
               /\ 1 <= sent[j].position
               /\ sent[j].position <= sent[j].total
        /\ (Len(last.start) = 1
            => /\ Len(sent) = 1
               /\ sent[1].type = "queue_status"
               /\ sent[1].to = last.start[1].websocket
               /\ sent[1].position = 1
               /\ sent[1].total = 1)

\* A tick on a pool of one told the user who waits alone position 1 of 1.
C23_Witness ==
  /\ last.kind = "alarm"
  /\ Len(last.start) = 1
  /\ Len(sent) = 1
  /\ sent[1].type = "queue_status"
  /\ sent[1].delivered
  /\ sent[1].position = 1
  /\ sent[1].total = 1

\* A tick on a pool of three: the two who joined first were sent matched, and
\* then the third was sent position 1 of 1.
C23_OddPoolCase ==
  /\ last.kind = "alarm"
  /\ Len(last.start) = 3
  /\ Len(sent) = 3
  /\ sent[3].type = "queue_status"
  /\ sent[3].position = 1
  /\ sent[3].total = 1


\* The identities that the messages i of `msgs` with i in `at` were sent to.
SentTo(msgs, type, at) ==
  {UsernameOf(msgs[i].to) : i \in {j \in at : msgs[j].type = type}}

\* C24: an identity that was sent matched is sent no queue_status until it
\* joins again. In the turn that pairs it, no queue_status to it follows its
\* matched message and it keeps no entry in the pool; and a step that is not
\* a join_queue of an identity without an entry sends that identity no
\* queue_status and gives it no entry.
C24_NoStatusAfterMatched ==
  [][/\ \A j \in 1..Len(sent') :
          sent'[j].type = "matched"
          => /\ UsernameOf(sent'[j].to) \notin SentTo(sent', "queue_status", (j + 1)..Len(sent'))
             /\ UsernameOf(sent'[j].to) \notin QueuedNames(queue')
     /\ \A u \in Usernames :
          (/\ u \notin QueuedNames(queue)
           /\ ~(last'.kind = "join_queue" /\ UsernameOf(sent'[1].to) = u))
          => /\ u \notin SentTo(sent', "queue_status", 1..Len(sent'))
             /\ u \notin QueuedNames(queue')]_vars

\* A tick on a pool of two sent each of the two its matched message and no
\* queue_status, and left the pool empty.
C24_Witness ==
  /\ last.kind = "alarm"
  /\ Len(last.start) = 2
  /\ Len(sent) = 2
  /\ sent[1].type = "matched"
  /\ sent[2].type = "matched"
  /\ sent[1].to # sent[2].to
  /\ queue = <<>>


\* The messages of type `type` among msgs.
OfType(msgs, type) == SelectSeq(msgs, LAMBDA m : m.type = type)

\* C25: a message of unknown type or one that does not parse gets exactly one
\* error reply, sent on its own connection, and the handler leaves the
\* sockets, the pool and the alarm as they were.
C25_OneErrorReply ==
  [][\A ws \in Sockets, kind \in {"unknown", "malformed"} :
       Reply(ws, kind)
       => /\ Len(OfType(sent', "error")) = 1
          /\ \A i \in 1..Len(sent') : sent'[i].to = ws
          /\ sock' = sock
          /\ queue' = queue
          /\ alarmSet' = alarmSet]_vars

\* C26: a heartbeat from a client is answered with exactly one heartbeat on
\* the same connection and leaves the pool as it was, and no other step sends
\* a heartbeat.
C26_HeartbeatEcho ==
  [][/\ \A ws \in Sockets :
          Reply(ws, "heartbeat")
          => /\ Len(OfType(sent', "heartbeat")) = 1
             /\ \A i \in 1..Len(sent') : sent'[i].to = ws
             /\ sent'[1].type = "heartbeat"
             /\ queue' = queue
     /\ (sent' # sent /\ Len(OfType(sent', "heartbeat")) > 0)
        => \E ws \in Sockets : Reply(ws, "heartbeat")]_vars

\* A heartbeat was handled while a user waited in the pool, and its one reply
\* was delivered.
C26_Witness ==
  /\ last.kind = "heartbeat"
  /\ Len(sent) = 1
  /\ sent[1].type = "heartbeat"
  /\ sent[1].delivered
  /\ Len(queue) > 0


\* ======================================================================
\* Properties of /api/verify-worldid, continued
\* ======================================================================

\* C27: when the write of a request for hash h and wallet w2 runs while the
\* table holds h in the row of another wallet, then afterwards h is in the
\* row of w2 and in no other row and w2 is verified, whether or not w2 had a
\* row of its own.
C27_Rebind ==
  [][\A rid \in AttIds :
       (/\ AttestWrite(rid)
        /\ att[rid].existing
        /\ \E r \in usersTable : /\ r.nullifier_hash = att[rid].hash
                                 /\ r.wallet_address # att[rid].wallet)
       => /\ \E r \in usersTable' : r.nullifier_hash = att[rid].hash
          /\ \A r \in usersTable' :
               r.nullifier_hash = att[rid].hash => r.wallet_address = att[rid].wallet
          /\ IsVerified(usersTable', att[rid].wallet)]_vars


\* C28: a request with a nullifier_hash whose SELECT, UPDATE or INSERT fails,
\* by an error of the database or by a constraint of the table, is answered
\* verified and leaves the users table as it was.
C28_DbFailureNotFatal ==
  [][attAnswer'.dbError
     => /\ attAnswer'.status = "verified"
        /\ attAnswer'.hash # 0
        /\ usersTable' = usersTable]_vars

\* The UPDATE of a request whose SELECT had found the hash was rejected by the
\* database; the request was answered verified.
C28_Witness ==
  /\ attAnswer.dbError
  /\ ~attAnswer.wrote
  /\ attAnswer.existing
  /\ attAnswer.status = "verified"
  /\ usersTable # {}

\* The scenario of C28 in which the read fails: the SELECT of the first
\* request was rejected, and the table is still empty.
C28_ReadFailedCase ==
  /\ attAnswer.dbError
  /\ ~attAnswer.wrote
  /\ ~attAnswer.existing
  /\ attAnswer.status = "verified"
  /\ usersTable = {}


\* ======================================================================
\* Properties of the matching coordinator, continued
\* ======================================================================

\* The entry of identity u in the pool q, as a set: empty when u has none.
EntryOf(q, u) == {q[i] : i \in {j \in 1..Len(q) : q[j].username = u}}

\* C29: the entry of an identity leaves the pool only in a leave_queue, close
\* or error of a connection of that identity, in a pairing that sends the
\* identity matched, or in a tick whose queue_status to it is not delivered;
\* and it is replaced only by a join_queue of that identity. No other step
\* removes or changes it.
C29_EntryLeavesOnlyByOwnEvents ==
  [][\A u \in Usernames :
       /\ (u \in QueuedNames(queue) /\ u \notin QueuedNames(queue'))
          => \/ \E ws \in Sockets : UsernameOf(ws) = u /\ LeaveQueue(ws)
             \/ \E ws \in Sockets : UsernameOf(ws) = u /\ webSocketClose(ws)
             \/ \E ws \in Sockets : UsernameOf(ws) = u /\ webSocketError(ws)
             \/ u \in SentTo(sent', "matched", 1..Len(sent'))
             \/ \E i \in 1..Len(sent') :
                  /\ sent'[i].type = "queue_status"
                  /\ UsernameOf(sent'[i].to) = u
                  /\ ~sent'[i].delivered
       /\ (u \in QueuedNames(queue) /\ u \in QueuedNames(queue')
           /\ EntryOf(queue, u) # EntryOf(queue', u))
          => \E ws \in Sockets, adv \in Schedules(1, Len(queue) + 1) :
               UsernameOf(ws) = u /\ JoinQueue(ws, adv)]_vars


\* C30: when a tick has run, the object's alarm (it has one, which setAlarm
\* overwrites) is set if and only if the pool is not empty after the pairing
\* pass and the broadcast: a tick that leaves the pool empty sets no alarm.
C30_RearmIffEntriesRemain ==
  last.kind = "alarm" => (alarmSet <=> Len(queue) > 0)

\* A tick paired the two users of the pool, left it empty and set no alarm.
C30_Witness ==
  /\ last.kind = "alarm"
  /\ Len(last.start) = 2
  /\ Len(pairings) = 1
  /\ queue = <<>>
  /\ ~alarmSet

\* The other side of C30: a tick on a pool of one left the user waiting and
\* set the next alarm.
C30_RearmedCase ==
  /\ last.kind = "alarm"
  /\ Len(last.start) = 1
  /\ Len(queue) = 1
  /\ alarmSet


\* C31: a tick that runs directly after a tick, with no other event between
\* the two, leaves the pool as the first tick left it and pairs nobody.
C31_TickIdempotent ==
  (last.kind = "alarm" /\ last.again)
  => /\ queue = last.start
     /\ pairings = <<>>
     /\ Matched = <<>>

\* Two ticks in a row with a user waiting: the second found the pool of one
\* that the first had left and told the user its position again.
C31_Witness ==
  /\ last.kind = "alarm"
  /\ last.again
  /\ Len(last.start) = 1
  /\ queue = last.start
  /\ Len(sent) = 1
  /\ sent[1].type = "queue_status"


\* C32: the handlers are serialized. At most one handler is between its first
\* and its last statement, no handler is delivered an event while a pair is
\* half removed, and the pool a pairing pass leaves is the pool that tryMatch
\* makes of the pool the pass found: nothing has touched it in between.
C32_Serialized ==
  /\ Cardinality(Running) <= 1
  /\ \A h \in StepHandlers :
       run[h].pc = "remove2" => \A g \in StepHandlers \ {h} : run[g].pc = "idle"
  /\ last.ran => last.post = tryMatch(last.pre, 0, 0, 1).queue

\* The tick has removed the first user of a pair and not yet the second,
\* while a connected client's message cannot be handled yet.
C32_Witness ==
  /\ run[AlarmId].pc = "remove2"
  /\ Len(queue) = 1
  /\ \E ws \in StepSockets : sock[ws] = "open" /\ run[ws].pc = "idle"


\* C33: no failure of a send leaves a handler: whatever a handler sent and
\* whichever of its sends threw, the handler returned normally and, if it was
\* a join_queue, had run its pairing pass.
C33_SendFailureContained ==
  /\ ~last.threw
  /\ (last.kind = "join_queue" => last.ran)


\* C34: an entry whose socket cannot be sent to is out of the pool when the
\* next tick has run (a socket that failed a send stays failed until its close
\* event, so this is: a tick leaves no entry with such a socket), and the
\* failure is reported to nobody else: a tick sends no error message, and a
\* message handler sends error messages to its own socket only.
C34_FailedSocketLeavesByNextTick ==
  /\ last.kind = "alarm"
     => \A i \in 1..Len(queue) : sock[queue[i].websocket] = "open"
  /\ \A i \in 1..Len(sent) :
       sent[i].type = "error"
       => last.kind # "alarm" /\ sent[i].to = sent[1].to

\* A user whose join_queue could not be answered was still in the pool when
\* the tick began; the tick's queue_status to it failed, and the tick left
\* the pool without it.
C34_Witness ==
  /\ last.kind = "alarm"
  /\ Len(last.start) = 1
  /\ Len(sent) = 1
  /\ sent[1].type = "queue_status"
  /\ ~sent[1].delivered
  /\ sent[1].to = last.start[1].websocket
  /\ queue = <<>>


\* ======================================================================
\* Properties of the freemium routes
\* ======================================================================

\* C35: a successful /api/payments/verify for a wallet whose match_count of
\* today is c reports new_count = max(c - 5, 0).
C35_NewCountAfterPayment ==
  (payAnswer.kind = "verify" /\ payAnswer.status = "ok")
  => payAnswer.count = Max(payAnswer.before - Granted, 0)

\* C40: the grant statement runs at most once for a reference_id, and a
\* payment whose status is success keeps that status.
C40_CreditAtMostOnce ==
  [][\A r \in RefIds :
       /\ credit'[r] <= 1
       /\ (payments[r] = "success" => payments'[r] = "success")]_vars


\* ======================================================================
\* Properties of the matching coordinator: connections of one username
\* ======================================================================

\* C36: a leave_queue, close or error event of a connection removes no entry
\* that holds another connection.
C36_OtherConnectionsEntryKept ==
  [][\A ws \in Sockets :
       (LeaveQueue(ws) \/ webSocketClose(ws) \/ webSocketError(ws))
       => \A i \in 1..Len(queue) :
            queue[i].websocket # ws => queue[i] \in Entries(queue')]_vars


\* ======================================================================
\* Properties of the SIWE nonce store, continued
\* ======================================================================

\* C37: a /api/verify-siwe request that is answered 400 or 500 leaves
\* nonceStore as it was.
C37_FailureKeepsStore ==
  [][answer'.status \in {"invalid400", "error500"} => nonceStore' = nonceStore]_vars


\* A record that /api/verify-siwe would still accept at time t.
Pending(stored, t) == stored # NoRecord /\ stored.expires >= t

\* Step is a /api/nonce call or the completion of a /api/verify-siwe request
\* of the caller with clientId d.
StepOf(d) ==
  \/ \E v \in NonceValues : GetNonce(d, v)
  \/ \E rid \in ReqIds : req[rid].clientId = d /\ SiweFinish(rid)

C38_RedeemCase ==
  /\ answer.status = "success"
  /\ answer.clientId = 1
  /\ nonceStore[1] = NoRecord
  /\ Pending(nonceStore[Sweeper], wallClock)


\* ======================================================================
\* Liveness of the matching coordinator
\* ======================================================================

\* C39: whenever the pool holds two or more entries, a pairing follows, with
\* no more than the timer's fairness assumed.
C39_EventuallyPaired == (Len(queue) >= 2) ~> (pairings # <<>>)

====
